---- MODULE Spec2Model ----
(***************************************************************************)
(* Nightly build pipeline of sitescripts/extensions/bin/createNightlies.py *)
(* main() loops over the configured repositories, and for each one either  *)
(* builds and publishes a nightly (NightlyBuild.run) or reconciles the     *)
(* pending downloads recorded in the lock file (NightlyBuild.download).    *)
(***************************************************************************)
EXTENDS Integers, Sequences, FiniteSets, TLC

\* ------------------------------------------------------------------------
\* Program constants and bounds of the model
\* ------------------------------------------------------------------------

\* createNightlies.py:60
MAX_BUILDS == 50

\* number of artifacts a directory may hold beyond MAX_BUILDS
MaxExtra == 3

\* highest repository revision the environment commits
MaxRev == 2

\* number of passes of main() that are explored
MaxPasses == 2

\* number of calls of the lock file functions that are explored in a row
MaxCalls == 2

\* ------------------------------------------------------------------------
\* Versions and the version comparator
\* ------------------------------------------------------------------------

\* A version string "1.2.10" is the sequence of its dot separated numeric
\* segments <<1, 2, 10>>.
Max(a, b) == IF a >= b THEN a ELSE b

segment(v, i) == IF i <= Len(v) THEN v[i] ELSE 0

RECURSIVE compareFrom(_, _, _)
compareFrom(v1, v2, i) ==
    IF i > Max(Len(v1), Len(v2)) THEN 0
    ELSE IF segment(v1, i) < segment(v2, i) THEN -1
    ELSE IF segment(v1, i) > segment(v2, i) THEN 1
    ELSE compareFrom(v1, v2, i + 1)

\* -1 when v1 is lower than v2, 1 when it is higher, 0 when they rank equal;
\* segments are compared pairwise as numbers, a missing segment counts as 0
compareVersions(v1, v2) == compareFrom(v1, v2, 1)

\* ------------------------------------------------------------------------
\* Files of one nightlies directory
\* ------------------------------------------------------------------------

\* <basename>-<version><packageSuffix>
PkgFile(v) == [kind |-> "pkg", version |-> v]
\* <basename>-<version>.changelog.xhtml
ChangelogFile(v) == [kind |-> "changelog", version |-> v]

\* the version tokens of the names that start with the prefix and end with
\* the package suffix
listVersions(dir) == {f.version : f \in {g \in dir : g.kind = "pkg"}}

\* positions at which x may be inserted into the descending list s so that
\* it stays descending: behind a version that is not lower than x and before
\* one that is not higher
insertPositions(s, x) ==
    {k \in 0..Len(s) :
        /\ k = 0 \/ compareVersions(s[k], x) >= 0
        /\ k = Len(s) \/ compareVersions(x, s[k + 1]) >= 0}

insertAt(s, k, x) == SubSeq(s, 1, k) \o <<x>> \o SubSeq(s, k + 1, Len(s))

\* versions.sort(compareVersions, reverse=True) on the names os.listdir
\* returns in arbitrary order: every descending arrangement of the set, the
\* order among versions that compare equal being that of the listing
RECURSIVE sortedDescending(_)
sortedDescending(S) ==
    IF S = {} THEN {<<>>}
    ELSE LET x == CHOOSE y \in S : TRUE
         IN UNION {{insertAt(s, k, x) : k \in insertPositions(s, x)} :
                       s \in sortedDescending(S \ {x})}

\* the loop with versions.pop(0): the first version of the list goes
RECURSIVE retireLoop_popsNewest(_, _)
retireLoop_popsNewest(versions, dir) ==
    IF Len(versions) > MAX_BUILDS
    THEN LET version == versions[1]
         IN retireLoop_popsNewest(SubSeq(versions, 2, Len(versions)),
                dir \ {PkgFile(version), ChangelogFile(version)})
    ELSE [versions |-> versions, dir |-> dir]

\* the loop removing the package only: the changelog stays behind
RECURSIVE retireLoop_keepsChangelog(_, _)
retireLoop_keepsChangelog(versions, dir) ==
    IF Len(versions) > MAX_BUILDS
    THEN LET version == versions[Len(versions)]
         IN retireLoop_keepsChangelog(SubSeq(versions, 1, Len(versions) - 1),
                                      dir \ {PkgFile(version)})
    ELSE [versions |-> versions, dir |-> dir]

\* the while loop of retireBuilds: drop the last version and remove its
\* package and, if present, its changelog
RECURSIVE retireLoop(_, _)
retireLoop(versions, dir) ==
    IF Len(versions) > MAX_BUILDS
    THEN LET version == versions[Len(versions)]
         IN retireLoop(SubSeq(versions, 1, Len(versions) - 1),
                       dir \ {PkgFile(version), ChangelogFile(version)})
    ELSE [versions |-> versions, dir |-> dir]

\* the possible outcomes of retireBuilds() on a directory
retireBuilds(dir) ==
    {retireLoop(s, dir) : s \in sortedDescending(listVersions(dir))}

\* ------------------------------------------------------------------------
\* The downloads lock file (the ledger of pending downloads)
\* ------------------------------------------------------------------------

\* the empty JSON object
EmptyDoc == [k \in {} |-> <<>>]

\* the lock file does not exist
NoFile == [exists |-> FALSE, doc |-> EmptyDoc]

\* read_downloads_lockfile: the parsed document, {} when the file is missing
\* (IOError)
read_downloads_lockfile(file) == IF file.exists THEN file.doc ELSE EmptyDoc

\* write_downloads_lockfile: the file is created or replaced and holds the
\* dumped document
write_downloads_lockfile(values) == [exists |-> TRUE, doc |-> values]

\* the entry put in front of the bucket
appendEntry_inFront(current, platform, values) ==
    [k \in DOMAIN current \cup {platform} |->
        IF k = platform
        THEN <<values>>
                 \o (IF platform \in DOMAIN current THEN current[platform]
                     ELSE <<>>)
        ELSE current[k]]

\* current.setdefault(platform, []); current[platform].append(values)
appendEntry(current, platform, values) ==
    [k \in DOMAIN current \cup {platform} |->
        IF k = platform
        THEN (IF platform \in DOMAIN current THEN current[platform] ELSE <<>>)
                 \o <<values>>
        ELSE current[k]]

add_to_downloads_lockfile(file, platform, values) ==
    write_downloads_lockfile(
        appendEntry(read_downloads_lockfile(file), platform, values))

deleteAt(list, i) == SubSeq(list, 1, i - 1) \o SubSeq(list, i + 1, Len(list))

\* the bucket emptied but left in the document
dropKey_keepsEmpty(current, platform) ==
    [current EXCEPT ![platform] = <<>>]

\* del current[platform]
dropKey(current, platform) ==
    [k \in DOMAIN current \ {platform} |-> current[k]]

\* the loop without the comparison: every entry reached is deleted
RECURSIVE removeLoop_deletesAll(_, _, _, _)
removeLoop_deletesAll(list, i, filter_key, filter_value) ==
    IF i > Len(list) THEN [list |-> list, deleted |-> FALSE]
    ELSE IF filter_key \notin DOMAIN list[i]
         THEN [list |-> list, deleted |-> FALSE]
    ELSE LET after == deleteAt(list, i)
         IN IF Len(after) = 0
            THEN [list |-> after, deleted |-> TRUE]
            ELSE removeLoop_deletesAll(after, i + 1, filter_key, filter_value)

\* the loop without the test for the empty bucket
RECURSIVE removeLoop_noEmptyTest(_, _, _, _)
removeLoop_noEmptyTest(list, i, filter_key, filter_value) ==
    IF i > Len(list) THEN [list |-> list, deleted |-> FALSE]
    ELSE IF filter_key \notin DOMAIN list[i]
         THEN [list |-> list, deleted |-> FALSE]
    ELSE LET after == IF list[i][filter_key] = filter_value
                      THEN deleteAt(list, i) ELSE list
         IN removeLoop_noEmptyTest(after, i + 1, filter_key, filter_value)

\* The loop of remove_from_downloads_lockfile, iteration i (counted from 1)
\* over the bucket `list`, which the loop body shortens in place:
\*   for i, entry in enumerate(current[platform]):
\*       if entry[filter_key] == filter_value: del current[platform][i]
\*       if len(current[platform]) == 0: del current[platform]
\* A KeyError (entry without the key) ends the loop, the deletions made so
\* far stay.  Result: the bucket and whether the platform key was deleted.
RECURSIVE removeLoop(_, _, _, _)
removeLoop(list, i, filter_key, filter_value) ==
    IF i > Len(list) THEN [list |-> list, deleted |-> FALSE]
    ELSE IF filter_key \notin DOMAIN list[i]
         THEN [list |-> list, deleted |-> FALSE]
    ELSE LET after == IF list[i][filter_key] = filter_value
                      THEN deleteAt(list, i) ELSE list
         IN IF Len(after) = 0
            THEN [list |-> after, deleted |-> TRUE]
            ELSE removeLoop(after, i + 1, filter_key, filter_value)

removeEntries(current, platform, filter_key, filter_value) ==
    IF platform \notin DOMAIN current THEN current
    ELSE LET r == removeLoop(current[platform], 1, filter_key, filter_value)
         IN IF r.deleted THEN dropKey(current, platform)
            ELSE [current EXCEPT ![platform] = r.list]

remove_from_downloads_lockfile(file, platform, filter_key, filter_value) ==
    write_downloads_lockfile(
        removeEntries(read_downloads_lockfile(file), platform,
                      filter_key, filter_value))

\* ------------------------------------------------------------------------
\* State
\* ------------------------------------------------------------------------

VARIABLES
    repos,            \* the configured repositories, in configuration order
    head,             \* head[i]: the revision config.revision resolves to
    nightliesData,    \* the persisted nightlies configuration: latestRevision
    nightlyConfig,    \* the configuration as held in memory during a pass
    ledgerFile,       \* the downloads lock file
    lockBytes,        \* how much of the text of its document the lock file
                      \* holds: "all", or "none" or "part" while a write of
                      \* it is under way or after one was cut short
    files,            \* files[i]: packages and changelogs of the directory
    index,            \* index[i]: the links of index.html
    manifest,         \* manifest[i]: the version the update manifest names
    latestPkg,        \* latestPkg[i]: the version 00latest<suffix> links to
    latestChangelog,  \* latestChangelog[i]: target of 00latest.changelog
    passes,           \* number of calls of main() so far
    mode,             \* "build" or "download": the argument of main()
    pc,               \* position of the pass
    repo,             \* index of the repository the loop of main() is at
    revision,         \* self.revision
    previousRevision, \* self.previousRevision
    tempdir,          \* self.tempdir: "none", "exists" or "removed"
    workspace,        \* the revision cloned into the temporary directory
    tempFiles,        \* versions of the packages built into the tempdir
    buildNum,         \* self.buildNum
    version,          \* self.version
    path,             \* self.path
    versions,         \* the list retireBuilds() returned
    download_info,    \* the lock file document download() read
    dlIndex,          \* position of the loop of download() in its bucket
    response,         \* the vendor's answer to the last status query
    storeCalls,       \* vendor requests issued for the current repository
    lockCalls,        \* the calls that changed the lock file, each with the
                      \* document read before it
    trace,            \* steps completed for the current repository
    raisedAt,         \* the step that raised, "none" if none did
    atStart,          \* pointer and directory when the repository was taken up
    atPointer,        \* the directory when the pointer was assigned
    lastBuild,        \* lastBuild[i]: how the last build mode pass ended
    processed,        \* the repositories taken up in this pass, in order
    errors,           \* the repositories whose failure was logged in this pass
    openid            \* the call of the /openid handler that is under way

pub == <<files, index, manifest, latestPkg, latestChangelog>>
inst == <<revision, previousRevision, tempdir, workspace, tempFiles, buildNum,
          version, path, versions>>
dl == <<download_info, dlIndex, response>>
conf == <<repos, nightliesData, nightlyConfig, passes, mode, lockBytes,
          openid>>
hist == <<atStart, atPointer, lastBuild, processed, errors, lockCalls>>
vars == <<repos, head, nightliesData, nightlyConfig, ledgerFile, lockBytes,
          files, index,
          manifest, latestPkg, latestChangelog, passes, mode, pc, repo,
          revision, previousRevision, tempdir, workspace, tempFiles, buildNum,
          version, path, versions, download_info, dlIndex, response,
          storeCalls, lockCalls, trace, raisedAt, atStart, atPointer,
          lastBuild, processed, errors, openid>>

\* ------------------------------------------------------------------------
\* Configuration
\* ------------------------------------------------------------------------

BuildTypes == {"gecko", "chrome", "safari", "edge", "android", "ie"}

\* NightlyBuild.downloadable_repos
downloadable_repos == {"gecko"}

\* the options a store upload needs to be attempted (run(), the if/elif chain)
GeckoOptions == {"galleryID", "amo_key"}
ChromeOptions == {"clientID", "clientSecret", "refreshToken"}
EdgeOptions == {"clientID", "tenantID", "privateKey", "thumbprint"}

Repo(t, o) == [type |-> t, options |-> o]

\* two repositories, one of a type the script does not know: before and
\* after a repository with a store publisher
TwoRepositories ==
    { <<Repo("opera", {}), Repo("gecko", GeckoOptions)>>,
      <<Repo("chrome", ChromeOptions), Repo("opera", {})>> }

\* the repositories with a store publisher configured that start from a
\* full directory as well
FullDirectory ==
    { <<Repo("gecko", GeckoOptions)>>,
      <<Repo("chrome", ChromeOptions)>> }

\* the configurations explored: every build type, with all, with some and
\* with none of the store options
Configurations ==
    TwoRepositories \cup FullDirectory \cup
    { <<Repo("edge", EdgeOptions)>>,
      <<Repo("android", {})>>,
      <<Repo("safari", {})>>,
      <<Repo("ie", {})>>,
      <<Repo("gecko", {"galleryID"})>>,
      <<Repo("chrome", {"clientID", "refreshToken"})>>,
      <<Repo("edge", {"clientID", "tenantID", "privateKey"})>> }

NoVersion == <<>>

\* the directory contents explored at the start: empty, one old build, and
\* MAX_BUILDS old builds of which the oldest and the newer half have
\* changelogs
oldVersion(i) == <<0, i>>
EmptyDir == {}
OneBuildDir == {PkgFile(oldVersion(1)), ChangelogFile(oldVersion(1))}
FullDir ==
    {PkgFile(oldVersion(i)) : i \in 1..MAX_BUILDS}
        \cup {ChangelogFile(oldVersion(i)) :
                  i \in {1} \cup (MAX_BUILDS \div 2)..MAX_BUILDS}

type == repos[repo].type
options == repos[repo].options

NoPath == [dir |-> "none", version |-> NoVersion]

\* what the public directory of repository i holds
PubState(i) ==
    [files |-> files[i], index |-> index[i], manifest |-> manifest[i],
     latestPkg |-> latestPkg[i], latestChangelog |-> latestChangelog[i]]

\* the links updateIndex() renders: the versions whose package exists, each
\* with its changelog when that exists
indexLinks(vs, dir) ==
    LET present(v) == PkgFile(v) \in dir
        kept == SelectSeq(vs, present)
    IN [k \in 1..Len(kept) |->
           [version |-> kept[k], changelog |-> ChangelogFile(kept[k]) \in dir]]

Range(f) == {f[x] : x \in DOMAIN f}

first(vs) == IF vs = <<>> THEN NoVersion ELSE vs[1]

\* version name of the checked out metadata
MetadataVersion == <<1>>

\* readAndroidMetadata: while self.version.count('.') < 2: self.version += '.0'
RECURSIVE padVersion(_)
padVersion(v) == IF Len(v) - 1 < 2 THEN padVersion(Append(v, 0)) ELSE v

\* the version the metadata readers compute for build number n
buildVersion(t, n) ==
    IF t = "android" THEN Append(padVersion(MetadataVersion), n)
    ELSE Append(MetadataVersion, n)

\* the /openid handler is not running
NoCall == [pc |-> "idle"]

\* no repository is being processed
NoSnapshot ==
    [pointer |-> 0, ledger |-> NoFile,
     pub |-> [files |-> {}, index |-> <<>>, manifest |-> NoVersion,
              latestPkg |-> NoVersion, latestChangelog |-> NoVersion]]

\* ------------------------------------------------------------------------
\* Initial states
\* ------------------------------------------------------------------------

Indexes(r) == 1..Len(r)

Setup(r, d, l, start) ==
    LET vs == CHOOSE s \in sortedDescending(listVersions(d)) : TRUE
        logs == SelectSeq(vs, LAMBDA v : ChangelogFile(v) \in d)
    IN /\ repos = r
       /\ head = [i \in Indexes(r) |-> 1]
       /\ nightliesData = [i \in Indexes(r) |-> 0]
       /\ nightlyConfig = [i \in Indexes(r) |-> 0]
       /\ ledgerFile = l
       /\ lockBytes = "all"
       /\ files = [i \in Indexes(r) |-> d]
       /\ index = [i \in Indexes(r) |-> indexLinks(vs, d)]
       /\ manifest = [i \in Indexes(r) |-> first(vs)]
       /\ latestPkg = [i \in Indexes(r) |-> first(vs)]
       /\ latestChangelog = [i \in Indexes(r) |-> first(logs)]
       /\ passes = 0
       /\ mode = "build"
       /\ pc = start
       /\ repo = 1
       /\ revision = 0
       /\ previousRevision = 0
       /\ tempdir = "none"
       /\ workspace = 0
       /\ tempFiles = {}
       /\ buildNum = 0
       /\ version = NoVersion
       /\ path = NoPath
       /\ versions = <<>>
       /\ download_info = EmptyDoc
       /\ dlIndex = 0
       /\ response = {}
       /\ storeCalls = <<>>
       /\ lockCalls = <<>>
       /\ trace = <<>>
       /\ raisedAt = "none"
       /\ atStart = NoSnapshot
       /\ atPointer = NoSnapshot.pub
       /\ lastBuild = [i \in Indexes(r) |->
                          [kind |-> "none", rev |-> 0, pointerSet |-> FALSE]]
       /\ processed = <<>>
       /\ errors = <<>>
       /\ openid = NoCall

\* the starts explored: a configuration and the content of its directories
Starts ==
    (TwoRepositories \X {OneBuildDir})
        \cup ((Configurations \ TwoRepositories) \X {EmptyDir, OneBuildDir})
        \cup (FullDirectory \X {FullDir})

Init == \E s \in Starts : Setup(s[1], s[2], NoFile, "idle")

\* ------------------------------------------------------------------------
\* Steps
\* ------------------------------------------------------------------------

\* a step completes and control moves on
Done(step, next) ==
    /\ pc' = next
    /\ trace' = Append(trace, step)
    /\ raisedAt' = raisedAt

\* a step raises: control moves to the finally clause of run() / download()
Raise(step) ==
    /\ pc' = "finally"
    /\ trace' = trace
    /\ raisedAt' = step

\* The environment commits to the repository of i.  A pass reads head[i]
\* when it resolves the revision and when it clones, so a commit at any
\* other moment has the effect of one between two passes, or of one between
\* the two reads.
Commit(i) ==
    /\ head[i] < MaxRev
    /\ pc \in {"idle", "done"} \/ (pc = "dispatch" /\ i = repo)
    /\ head' = [head EXCEPT ![i] = @ + 1]
    /\ UNCHANGED <<conf, ledgerFile, pub, pc, repo, inst, dl, storeCalls,
                   trace, raisedAt, hist>>

\* main(): read the nightlies configuration, start the loop
main ==
    /\ pc \in {"idle", "done"}
    /\ passes < MaxPasses
    /\ passes' = passes + 1
    /\ mode' \in {"build", "download"}
    /\ nightlyConfig' = nightliesData
    /\ repo' = 1
    /\ pc' = "init"
    /\ processed' = <<>>
    /\ errors' = <<>>
    /\ UNCHANGED <<repos, lockBytes, openid,
                   head, nightliesData, ledgerFile, pub, inst, dl,
                   storeCalls, lockCalls, trace, raisedAt, atStart, atPointer,
                   lastBuild>>

\* NightlyBuild.__init__: resolve the current revision, read the pointer
NightlyBuild_init ==
    /\ pc = "init"
    /\ previousRevision' = nightlyConfig[repo]
    /\ tempdir' = "none"
    /\ workspace' = 0
    /\ tempFiles' = {}
    /\ buildNum' = 0
    /\ version' = NoVersion
    /\ path' = NoPath
    /\ versions' = <<>>
    /\ download_info' = EmptyDoc
    /\ dlIndex' = 0
    /\ response' = {}
    /\ storeCalls' = <<>>
    /\ trace' = <<>>
    /\ lockCalls' = <<>>
    /\ atStart' = [pointer |-> nightlyConfig[repo], ledger |-> ledgerFile,
                   pub |-> PubState(repo)]
    /\ atPointer' = PubState(repo)
    /\ processed' = Append(processed, repo)
    /\ \/ /\ revision' = head[repo]
          /\ raisedAt' = "none"
          /\ pc' = "dispatch"
       \/ /\ revision' = 0
          /\ raisedAt' = "init"
          /\ pc' = "except"
    /\ UNCHANGED <<conf, head, ledgerFile, pub, repo, lastBuild, errors>>

\* the comparison taken against the symbolic revision of the configuration,
\* which no resolved revision ever equals
hasChanges_symbolic == TRUE

\* NightlyBuild.hasChanges
hasChanges == revision /= previousRevision

\* main_dispatch with the pointer assigned as run() is entered
main_dispatch_early ==
    /\ pc = "dispatch"
    /\ IF mode = "download"
       THEN pc' = "download" /\ UNCHANGED <<lastBuild, nightlyConfig>>
       ELSE IF hasChanges
       THEN /\ pc' = (IF type = "ie" THEN "retire" ELSE "copy")
            /\ nightlyConfig' = [nightlyConfig EXCEPT ![repo] = revision]
            /\ UNCHANGED lastBuild
       ELSE /\ pc' = "next"
            /\ lastBuild' = [lastBuild EXCEPT ![repo] =
                   [kind |-> "nochange", rev |-> revision,
                    pointerSet |-> FALSE]]
            /\ UNCHANGED nightlyConfig
    /\ UNCHANGED <<repos, lockBytes, openid,
                   nightliesData, passes, mode, head, ledgerFile, pub,
                   repo, inst, dl, storeCalls, lockCalls, trace, raisedAt,
                   atStart, atPointer, processed, errors>>

\* the body of the try with the test for changes first: run() also in a
\* download pass
main_dispatch_changesFirst ==
    /\ pc = "dispatch"
    /\ IF hasChanges
       THEN pc' = (IF type = "ie" THEN "retire" ELSE "copy")
            /\ UNCHANGED lastBuild
       ELSE IF mode = "download"
       THEN pc' = "download" /\ UNCHANGED lastBuild
       ELSE /\ pc' = "next"
            /\ lastBuild' = [lastBuild EXCEPT ![repo] =
                   [kind |-> "nochange", rev |-> revision,
                    pointerSet |-> FALSE]]
    /\ UNCHANGED <<conf, head, ledgerFile, pub, repo, inst, dl, storeCalls,
                   lockCalls, trace, raisedAt, atStart, atPointer, processed,
                   errors>>

\* main(), the body of the try: download(), or run() when there are changes
main_dispatch ==
    /\ pc = "dispatch"
    /\ IF mode = "download"
       THEN pc' = "download" /\ UNCHANGED lastBuild
       ELSE IF hasChanges
       THEN pc' = (IF type = "ie" THEN "retire" ELSE "copy")
            /\ UNCHANGED lastBuild
       ELSE /\ pc' = "next"
            /\ lastBuild' = [lastBuild EXCEPT ![repo] =
                   [kind |-> "nochange", rev |-> revision,
                    pointerSet |-> FALSE]]
    /\ UNCHANGED <<conf, head, ledgerFile, pub, repo, inst, dl, storeCalls,
                   lockCalls, trace, raisedAt, atStart, atPointer, processed,
                   errors>>

\* copyRepository: mkdtemp, hg clone, ensure_dependencies.py
copyRepository(next) ==
    /\ \/ /\ tempdir' = "exists"
          /\ workspace' = head[repo]
          /\ Done("copyRepository", next)
       \/ /\ tempdir' = "exists"
          /\ workspace' = 0
          /\ Raise("copyRepository")
       \/ /\ UNCHANGED <<tempdir, workspace>>
          /\ Raise("copyRepository")
    /\ UNCHANGED <<conf, head, ledgerFile, pub, repo, revision,
                   previousRevision, tempFiles, buildNum, version, path,
                   versions, dl, storeCalls, hist>>

run_copyRepository == pc = "copy" /\ copyRepository("buildnum")

\* getCurrentBuild
run_getCurrentBuild ==
    /\ pc = "buildnum"
    /\ \/ buildNum' = workspace /\ Done("getCurrentBuild", "metadata")
       \/ UNCHANGED buildNum /\ Raise("getCurrentBuild")
    /\ UNCHANGED <<conf, head, ledgerFile, pub, repo, revision,
                   previousRevision, tempdir, workspace, tempFiles, version,
                   path, versions, dl, storeCalls, hist>>

\* the chain of read...Metadata calls without its else branch: a type it
\* does not name goes on to build()
run_readMetadata_fallsThrough ==
    /\ pc = "metadata"
    /\ \/ /\ type /= "ie"
          /\ version' = buildVersion(type, buildNum)
          /\ Done("readMetadata", "build")
       \/ UNCHANGED version /\ Raise("readMetadata")
    /\ UNCHANGED <<conf, head, ledgerFile, pub, repo, revision,
                   previousRevision, tempdir, workspace, tempFiles, buildNum,
                   path, versions, dl, storeCalls, hist>>

\* run(): the chain of read...Metadata calls, 'Unknown build type' otherwise
run_readMetadata ==
    /\ pc = "metadata"
    /\ \/ /\ type \in BuildTypes \ {"ie"}
          /\ version' = buildVersion(type, buildNum)
          /\ Done("readMetadata", "build")
       \/ UNCHANGED version /\ Raise("readMetadata")
    /\ UNCHANGED <<conf, head, ledgerFile, pub, repo, revision,
                   previousRevision, tempdir, workspace, tempFiles, buildNum,
                   path, versions, dl, storeCalls, hist>>

addFile(f) == files' = [files EXCEPT ![repo] = @ \cup {f}]
dropFile(f) == files' = [files EXCEPT ![repo] = @ \ {f}]

\* build(): run the build tool, link 00latest<suffix> to the new package
build ==
    /\ pc = "build"
    /\ path' = [dir |-> (IF type \in downloadable_repos THEN "temp" ELSE "pub"),
                version |-> version]
    /\ IF type \in downloadable_repos
       THEN \* the package is built into the temporary directory
            /\ \/ tempFiles' = {version} /\ Done("build", "retire")
               \/ tempFiles' \in {{}, {version}} /\ Raise("build")
            /\ UNCHANGED pub
       ELSE IF type = "android"
       THEN \* the output file is opened first; a failing build removes it
            /\ \/ /\ addFile(PkgFile(version))
                  /\ latestPkg' = [latestPkg EXCEPT ![repo] = version]
                  /\ Done("build", "changelog")
               \/ /\ dropFile(PkgFile(version))
                  /\ UNCHANGED latestPkg
                  /\ Raise("build")
            /\ UNCHANGED <<tempFiles, index, manifest, latestChangelog>>
       ELSE \* build.py writes the output file; when it fails the file may
            \* have been written in part, or not at all
            /\ \/ /\ addFile(PkgFile(version))
                  /\ latestPkg' = [latestPkg EXCEPT ![repo] = version]
                  /\ Done("build", "changelog")
               \/ /\ addFile(PkgFile(version))
                  /\ UNCHANGED latestPkg
                  /\ Raise("build")
               \/ /\ UNCHANGED <<files, latestPkg>>
                  /\ Raise("build")
            /\ UNCHANGED <<tempFiles, index, manifest, latestChangelog>>
    /\ UNCHANGED <<conf, head, ledgerFile, repo, revision, previousRevision,
                   tempdir, workspace, buildNum, version, versions, dl,
                   storeCalls, hist>>

\* writeChangelog without the link 00latest.changelog.xhtml
writeChangelog_noAlias(next) ==
    /\ \/ /\ addFile(ChangelogFile(version))
          /\ UNCHANGED latestChangelog
          /\ Done("writeChangelog", next)
       \/ /\ UNCHANGED <<files, latestChangelog>>
          /\ Raise("writeChangelog")
    /\ UNCHANGED <<conf, head, ledgerFile, index, manifest, latestPkg, repo,
                   inst, dl, storeCalls, hist>>

\* writeChangelog: getChanges, render the changelog of self.version, link
\* 00latest.changelog.xhtml to it
writeChangelog(next) ==
    /\ \/ /\ addFile(ChangelogFile(version))
          /\ latestChangelog' = [latestChangelog EXCEPT ![repo] = version]
          /\ Done("writeChangelog", next)
       \/ /\ UNCHANGED <<files, latestChangelog>>
          /\ Raise("writeChangelog")
    /\ UNCHANGED <<conf, head, ledgerFile, index, manifest, latestPkg, repo,
                   inst, dl, storeCalls, hist>>

\* run() going from the changelog straight to retireBuilds(), the update
\* manifest left out
run_writeChangelog_thenRetire ==
    pc = "changelog" /\ writeChangelog("retire")

run_writeChangelog == pc = "changelog" /\ writeChangelog("manifest")

\* the types writeUpdateManifest writes a manifest for
ManifestTypes == {"safari", "android", "gecko"}

\* writeUpdateManifest: nothing for the types without a manifest
writeUpdateManifest(next) ==
    /\ \/ /\ manifest' = [manifest EXCEPT ![repo] =
                             IF type \in ManifestTypes THEN version ELSE @]
          /\ Done("writeUpdateManifest", next)
       \/ /\ type \in ManifestTypes
          /\ UNCHANGED manifest
          /\ Raise("writeUpdateManifest")
    /\ UNCHANGED <<conf, head, ledgerFile, files, index, latestPkg,
                   latestChangelog, repo, inst, dl, storeCalls, hist>>

run_writeUpdateManifest == pc = "manifest" /\ writeUpdateManifest("retire")

\* versions = self.retireBuilds()
retire(next) ==
    /\ \/ \E r \in retireBuilds(files[repo]) :
              /\ versions' = r.versions
              /\ files' = [files EXCEPT ![repo] = r.dir]
              /\ Done("retireBuilds", next)
       \/ /\ UNCHANGED <<versions, files>>
          /\ Raise("retireBuilds")
    /\ UNCHANGED <<conf, head, ledgerFile, index, manifest, latestPkg,
                   latestChangelog, repo, revision, previousRevision, tempdir,
                   workspace, tempFiles, buildNum, version, path, dl,
                   storeCalls, hist>>

run_retireBuilds ==
    /\ pc = "retire"
    /\ retire(IF type = "ie" THEN "iemanifest"
              ELSE IF type \notin downloadable_repos THEN "index"
              ELSE "setpointer")

\* writeIEUpdateManifest(versions): manifest and 00latest links of the
\* newest version, nothing when there is no version
run_writeIEUpdateManifest ==
    /\ pc = "iemanifest"
    /\ \/ /\ manifest' = [manifest EXCEPT ![repo] =
                             IF versions = <<>> THEN @ ELSE versions[1]]
          /\ latestPkg' = [latestPkg EXCEPT ![repo] =
                             IF versions = <<>> THEN @ ELSE versions[1]]
          /\ Done("writeIEUpdateManifest", "index")
       \/ /\ versions /= <<>>
          /\ UNCHANGED <<manifest, latestPkg>>
          /\ Raise("writeIEUpdateManifest")
    /\ UNCHANGED <<conf, head, ledgerFile, files, index, latestChangelog,
                   repo, inst, dl, storeCalls, hist>>

\* updateIndex(versions)
updateIndex(next) ==
    /\ \/ /\ index' = [index EXCEPT ![repo] = indexLinks(versions, files[repo])]
          /\ Done("updateIndex", next)
       \/ /\ UNCHANGED index
          /\ Raise("updateIndex")
    /\ UNCHANGED <<conf, head, ledgerFile, files, manifest, latestPkg,
                   latestChangelog, repo, inst, dl, storeCalls, hist>>

run_updateIndex == pc = "index" /\ updateIndex("setpointer")

\* the chain with each condition true as soon as one option is set
uploadStep_anyOption ==
    IF type = "gecko" /\ GeckoOptions \cap options /= {} THEN "amo_upload"
    ELSE IF type = "chrome" /\ ChromeOptions \cap options /= {}
    THEN "cws_token"
    ELSE IF type = "edge" /\ EdgeOptions \cap options /= {} THEN "ws_token"
    ELSE "finally"

\* run(): the if/elif chain that picks the store upload
uploadStep ==
    IF type = "gecko" /\ GeckoOptions \subseteq options THEN "amo_upload"
    ELSE IF type = "chrome" /\ ChromeOptions \subseteq options THEN "cws_token"
    ELSE IF type = "edge" /\ EdgeOptions \subseteq options THEN "ws_token"
    ELSE "finally"

\* run() with the pointer assignment left for after the store upload
run_setLatestRevision_late ==
    /\ pc = "setpointer"
    /\ atPointer' = PubState(repo)
    /\ Done("latestRevision", uploadStep)
    /\ UNCHANGED <<conf, head, ledgerFile, pub, repo, inst, dl, storeCalls,
                   lockCalls, atStart, lastBuild, processed, errors>>

\* run(): self.config.latestRevision = self.revision
run_setLatestRevision ==
    /\ pc = "setpointer"
    /\ nightlyConfig' = [nightlyConfig EXCEPT ![repo] = revision]
    /\ atPointer' = PubState(repo)
    /\ Done("latestRevision", uploadStep)
    /\ UNCHANGED <<repos, lockBytes, openid,
                   nightliesData, passes, mode, head, ledgerFile, pub,
                   repo, inst, dl, storeCalls, lockCalls, atStart, lastBuild,
                   processed, errors>>

\* a call of add_to_downloads_lockfile
addCall(platform, values) ==
    /\ ledgerFile' = add_to_downloads_lockfile(ledgerFile, platform, values)
    /\ lockCalls' = Append(lockCalls,
           [op |-> "add", platform |-> platform, entry |-> values,
            filter_key |-> "", filter_value |-> <<>>,
            before |-> read_downloads_lockfile(ledgerFile)])

\* a call of remove_from_downloads_lockfile
removeCall(platform, filter_key, filter_value) ==
    /\ ledgerFile' = remove_from_downloads_lockfile(ledgerFile, platform,
                         filter_key, filter_value)
    /\ lockCalls' = Append(lockCalls,
           [op |-> "remove", platform |-> platform, entry |-> <<>>,
            filter_key |-> filter_key, filter_value |-> filter_value,
            before |-> read_downloads_lockfile(ledgerFile)])

\* a vendor request is issued
call(name) == storeCalls' = Append(storeCalls, name)

\* uploadToMozillaAddons: PUT the package; when accepted record the pending
\* download and remove the local package
uploadToMozillaAddons ==
    /\ pc = "amo_upload"
    /\ call("amo_upload")
    /\ \/ /\ addCall(type, [buildtype |-> "devbuild", app_id |-> repo,
                             version |-> version])
          /\ tempFiles' = tempFiles \ {version}
          /\ Done("uploadToMozillaAddons", "finally")
       \/ /\ UNCHANGED <<ledgerFile, lockCalls, tempFiles>>
          /\ Raise("uploadToMozillaAddons")
    /\ UNCHANGED <<conf, head, pub, repo, revision, previousRevision, tempdir,
                   workspace, buildNum, version, path, versions, dl, atStart,
                   atPointer, lastBuild, processed, errors>>

\* a step of a store publisher that issues one request: it succeeds or raises
request(name, step, next) ==
    /\ call(name)
    /\ \/ Done(step, next)
       \/ Raise(step)
    /\ UNCHANGED <<conf, head, ledgerFile, pub, repo, inst, hist>>

\* what of a vendor's answer the code looks at, kept in `response`: the
\* uploadState of the upload, the statuses of the publish call, the status
\* of the commit
UploadStates == {"SUCCESS", "IN_PROGRESS", "FAILURE"}
AcceptedStatuses == {"OK", "ITEM_PENDING_REVIEW"}
PublishAnswers ==
    {{"OK"}, {"ITEM_PENDING_REVIEW"}, {"OK", "ITEM_PENDING_REVIEW"},
     {"NOT_AUTHORIZED"}, {"OK", "INVALID_DEVELOPER"}}
CommitStatuses == {"CommitStarted", "CommitFailed"}

\* what a step of a store publisher leaves alone
UploadRest == <<conf, head, ledgerFile, pub, repo, inst, hist>>

\* uploadToChromeWebStore: refresh token -> access token
cws_token ==
    /\ pc = "cws_token"
    /\ request("cws_token", "cws_token", "cws_upload")
    /\ UNCHANGED dl

\* the upload with the result not looked at
cws_upload_ignoresFailure ==
    /\ pc = "cws_upload"
    /\ \/ /\ call("cws_upload")
          /\ \/ \E state \in UploadStates :
                    /\ response' = {state}
                    /\ Done("cws_upload", "cws_publish")
             \/ UNCHANGED response /\ Raise("cws_upload")
       \/ /\ UNCHANGED <<storeCalls, response>>
          /\ Raise("cws_upload")
    /\ UNCHANGED <<UploadRest, download_info, dlIndex>>

\* uploadToChromeWebStore: check the CRX header (no request when it is not
\* the known one), PUT the package, raise on uploadState FAILURE
cws_upload ==
    /\ pc = "cws_upload"
    /\ \/ /\ call("cws_upload")
          /\ \/ \E state \in UploadStates :
                    /\ response' = {state}
                    /\ IF state = "FAILURE" THEN Raise("cws_upload")
                       ELSE Done("cws_upload", "cws_publish")
             \/ UNCHANGED response /\ Raise("cws_upload")
       \/ /\ UNCHANGED <<storeCalls, response>>
          /\ Raise("cws_upload")
    /\ UNCHANGED <<UploadRest, download_info, dlIndex>>

\* uploadToChromeWebStore: publish, raise unless every status is accepted
cws_publish ==
    /\ pc = "cws_publish"
    /\ call("cws_publish")
    /\ \/ \E statuses \in PublishAnswers :
              /\ response' = statuses
              /\ IF statuses \subseteq AcceptedStatuses
                 THEN Done("uploadToChromeWebStore", "finally")
                 ELSE Raise("uploadToChromeWebStore")
       \/ UNCHANGED response /\ Raise("uploadToChromeWebStore")
    /\ UNCHANGED <<UploadRest, download_info, dlIndex>>

\* upload_to_windows_store: get_windows_store_access_token
ws_token ==
    /\ pc = "ws_token"
    /\ request("ws_token", "ws_token", "ws_getapp")
    /\ UNCHANGED dl

\* the application fetched and the submission created whatever it reports
ws_getapp_skipsDelete ==
    /\ pc = "ws_getapp"
    /\ call("ws_getapp")
    /\ \/ \E pending \in BOOLEAN :
              /\ response' = IF pending THEN {"pendingApplicationSubmission"}
                             ELSE {}
              /\ Done("ws_getapp", "ws_create")
       \/ UNCHANGED response /\ Raise("ws_getapp")
    /\ UNCHANGED <<UploadRest, download_info, dlIndex>>

\* upload_to_windows_store: get the application, which may report a
\* pending submission
ws_getapp ==
    /\ pc = "ws_getapp"
    /\ call("ws_getapp")
    /\ \/ \E pending \in BOOLEAN :
              /\ response' = IF pending THEN {"pendingApplicationSubmission"}
                             ELSE {}
              /\ Done("ws_getapp", IF pending THEN "ws_delete" ELSE "ws_create")
       \/ UNCHANGED response /\ Raise("ws_getapp")
    /\ UNCHANGED <<UploadRest, download_info, dlIndex>>

\* upload_to_windows_store: DELETE the pending submission
ws_delete ==
    /\ pc = "ws_delete"
    /\ request("ws_delete", "ws_delete", "ws_create")
    /\ UNCHANGED dl

\* upload_to_windows_store: POST a new submission
ws_create ==
    /\ pc = "ws_create"
    /\ request("ws_create", "ws_create", "ws_update")
    /\ UNCHANGED dl

\* upload_to_windows_store: mark the packages in the submission (which
\* raises when the answer lacks them, before any request), PUT it
ws_update ==
    /\ pc = "ws_update"
    /\ \/ request("ws_update", "ws_update", "ws_uploadfile")
       \/ /\ Raise("ws_update")
          /\ UNCHANGED <<UploadRest, storeCalls>>
    /\ UNCHANGED dl

\* upload_appx_file_to_windows_store: zip the package (which may fail,
\* before any request), PUT the zip file
ws_uploadfile ==
    /\ pc = "ws_uploadfile"
    /\ \/ request("ws_uploadfile", "ws_uploadfile", "ws_commit")
       \/ /\ Raise("ws_uploadfile")
          /\ UNCHANGED <<UploadRest, storeCalls>>
    /\ UNCHANGED dl

\* upload_to_windows_store: commit, raise unless the status is CommitStarted
ws_commit ==
    /\ pc = "ws_commit"
    /\ call("ws_commit")
    /\ \/ \E status \in CommitStatuses :
              /\ response' = {status}
              /\ IF status = "CommitStarted"
                 THEN Done("upload_to_windows_store", "finally")
                 ELSE Raise("upload_to_windows_store")
       \/ UNCHANGED response /\ Raise("upload_to_windows_store")
    /\ UNCHANGED <<UploadRest, download_info, dlIndex>>

\* the cleanup at the end of the try block instead of in a finally clause:
\* an exception leaves the tempdir behind
finally_afterTry ==
    /\ pc = "finally"
    /\ IF raisedAt = "none"
       THEN /\ tempdir' = IF tempdir = "exists" THEN "removed" ELSE tempdir
            /\ tempFiles' = {}
            /\ workspace' = 0
            /\ pc' = "next"
            /\ lastBuild' = IF mode = "build"
                            THEN [lastBuild EXCEPT ![repo] =
                                     [kind |-> "ok", rev |-> revision,
                                      pointerSet |-> TRUE]]
                            ELSE lastBuild
       ELSE /\ pc' = "except"
            /\ UNCHANGED <<tempdir, tempFiles, workspace, lastBuild>>
    /\ UNCHANGED <<conf, head, ledgerFile, pub, repo, revision,
                   previousRevision, buildNum, version, path, versions, dl,
                   storeCalls, lockCalls, trace, raisedAt, atStart, atPointer,
                   processed, errors>>

\* a finally clause that also removes the output file of a failed run
finally_removesOutput ==
    /\ pc = "finally"
    /\ tempdir' = IF tempdir = "exists" THEN "removed" ELSE tempdir
    /\ tempFiles' = {}
    /\ workspace' = 0
    /\ IF raisedAt = "none"
       THEN /\ pc' = "next"
            /\ lastBuild' = IF mode = "build"
                            THEN [lastBuild EXCEPT ![repo] =
                                     [kind |-> "ok", rev |-> revision,
                                      pointerSet |-> TRUE]]
                            ELSE lastBuild
            /\ UNCHANGED files
       ELSE /\ pc' = "except"
            /\ files' = [files EXCEPT ![repo] = @ \ {PkgFile(path.version)}]
            /\ UNCHANGED lastBuild
    /\ UNCHANGED <<conf, head, ledgerFile, index, manifest, latestPkg,
                   latestChangelog, repo, revision, previousRevision, buildNum,
                   version, path, versions, dl, storeCalls, lockCalls, trace,
                   raisedAt, atStart, atPointer, processed, errors>>

\* the finally clause of run() and of download(): remove the tempdir; the
\* call returns to main(), or the exception propagates to it
finally ==
    /\ pc = "finally"
    /\ tempdir' = IF tempdir = "exists" THEN "removed" ELSE tempdir
    /\ tempFiles' = {}
    /\ workspace' = 0
    /\ IF raisedAt = "none"
       THEN /\ pc' = "next"
            /\ lastBuild' = IF mode = "build"
                            THEN [lastBuild EXCEPT ![repo] =
                                     [kind |-> "ok", rev |-> revision,
                                      pointerSet |-> TRUE]]
                            ELSE lastBuild
       ELSE pc' = "except" /\ UNCHANGED lastBuild
    /\ UNCHANGED <<conf, head, ledgerFile, pub, repo, revision,
                   previousRevision, buildNum, version, path, versions, dl,
                   storeCalls, lockCalls, trace, raisedAt, atStart, atPointer,
                   processed, errors>>

\* main() with the try around the whole loop: the first failure ends it
main_except_endsLoop ==
    /\ pc = "except"
    /\ errors' = Append(errors, repo)
    /\ lastBuild' = IF mode = "build"
                    THEN [lastBuild EXCEPT ![repo] =
                             [kind |-> "failed", rev |-> revision,
                              pointerSet |-> "latestRevision" \in Range(trace)]]
                    ELSE lastBuild
    /\ pc' = "writeconfig"
    /\ UNCHANGED <<conf, head, ledgerFile, pub, repo, inst, dl, storeCalls,
                   lockCalls, trace, raisedAt, atStart, atPointer, processed>>

\* main(): except Exception: log the failure, go on with the loop
main_except ==
    /\ pc = "except"
    /\ errors' = Append(errors, repo)
    /\ lastBuild' = IF mode = "build"
                    THEN [lastBuild EXCEPT ![repo] =
                             [kind |-> "failed", rev |-> revision,
                              pointerSet |-> "latestRevision" \in Range(trace)]]
                    ELSE lastBuild
    /\ pc' = "next"
    /\ UNCHANGED <<conf, head, ledgerFile, pub, repo, inst, dl, storeCalls,
                   lockCalls, trace, raisedAt, atStart, atPointer, processed>>

\* main(): the for loop takes the next repository, or ends
\* (the NightlyBuild object of the repository just processed is dropped)
main_next ==
    /\ pc = "next"
    /\ IF repo < Len(repos)
       THEN repo' = repo + 1 /\ pc' = "init"
       ELSE repo' = repo /\ pc' = "writeconfig"
    /\ revision' = 0
    /\ previousRevision' = 0
    /\ tempdir' = "none"
    /\ workspace' = 0
    /\ tempFiles' = {}
    /\ buildNum' = 0
    /\ version' = NoVersion
    /\ path' = NoPath
    /\ versions' = <<>>
    /\ download_info' = EmptyDoc
    /\ dlIndex' = 0
    /\ response' = {}
    /\ storeCalls' = <<>>
    /\ lockCalls' = <<>>
    /\ trace' = <<>>
    /\ raisedAt' = "none"
    /\ atStart' = NoSnapshot
    /\ atPointer' = NoSnapshot.pub
    /\ UNCHANGED <<conf, head, ledgerFile, pub, lastBuild, processed, errors>>

\* main() writing the configuration only after a pass without a failure
main_writeConfig_onlyWithoutErrors ==
    /\ pc = "writeconfig"
    /\ nightliesData' = IF errors = <<>> THEN nightlyConfig ELSE nightliesData
    /\ pc' = "done"
    /\ UNCHANGED <<repos, lockBytes, openid, nightlyConfig, passes, mode, head,
                   ledgerFile, pub, repo, inst, dl, storeCalls, trace,
                   raisedAt, hist>>

\* main(): nightlyConfig.write(file)
main_writeConfig ==
    /\ pc = "writeconfig"
    /\ nightliesData' = nightlyConfig
    /\ pc' = "done"
    /\ UNCHANGED <<repos, lockBytes, openid,
                   nightlyConfig, passes, mode, head, ledgerFile, pub,
                   repo, inst, dl, storeCalls, trace, raisedAt, hist>>

\* ------------------------------------------------------------------------
\* Download mode
\* ------------------------------------------------------------------------

\* download(): read the lock file; act only for a downloadable type that has
\* a bucket in it
download ==
    /\ pc = "download"
    /\ download_info' = read_downloads_lockfile(ledgerFile)
    /\ IF type \in downloadable_repos \cap DOMAIN download_info'
       THEN pc' = "dl_copy"
       ELSE pc' = "next"
    /\ UNCHANGED <<conf, head, ledgerFile, pub, repo, inst, dlIndex, response,
                   storeCalls, trace, raisedAt, hist>>

download_copyRepository == pc = "dl_copy" /\ copyRepository("dl_meta")

\* download(): self.readGeckoMetadata()
download_readGeckoMetadata ==
    /\ pc = "dl_meta"
    /\ \/ /\ version' = buildVersion(type, buildNum)
          /\ dlIndex' = 1
          /\ Done("readGeckoMetadata", "dl_loop")
       \/ UNCHANGED <<version, dlIndex>> /\ Raise("readGeckoMetadata")
    /\ UNCHANGED <<conf, head, ledgerFile, pub, repo, revision,
                   previousRevision, tempdir, workspace, tempFiles, buildNum,
                   path, versions, download_info, response, storeCalls, hist>>

\* download(): for data in download_info[self.config.type]
\* (trace and storeCalls start afresh for each entry)
download_loop ==
    /\ pc = "dl_loop"
    /\ IF dlIndex <= Len(download_info[type])
       THEN /\ version' = download_info[type][dlIndex].version
            /\ pc' = "dl_query"
            /\ trace' = <<>>
            /\ storeCalls' = <<>>
       ELSE /\ UNCHANGED <<version, trace, storeCalls>>
            /\ pc' = "finally"
    /\ UNCHANGED <<conf, head, ledgerFile, pub, repo, revision,
                   previousRevision, tempdir, workspace, tempFiles, buildNum,
                   path, versions, dl, raisedAt, hist>>

\* download_from_mozilla_addons, line 588
necessary == {"passed_review", "reviewed", "processed", "valid"}

approved(r) == necessary \subseteq r
rejected(r) == ~approved(r) /\ ("passed_review" \notin r \/ "valid" \notin r)

\* download_from_mozilla_addons: ask the vendor for the status of the
\* version; response holds the flags that are true
query_mozilla_addons ==
    /\ pc = "dl_query"
    /\ call("amo_status")
    /\ \/ /\ response' \in SUBSET necessary
          /\ path' = [dir |-> "pub", version |-> version]
          /\ Done("status", IF approved(response') THEN "dl_fetch"
                            ELSE IF rejected(response') THEN "dl_reject"
                            ELSE "dl_exists")
       \/ /\ UNCHANGED <<response, path>>
          /\ Raise("status")
    /\ UNCHANGED <<conf, head, ledgerFile, pub, repo, revision,
                   previousRevision, tempdir, workspace, tempFiles, buildNum,
                   version, versions, download_info, dlIndex, hist>>

\* the fetch with the package written only when the checksum is verified
fetch_from_mozilla_addons_verified ==
    /\ pc = "dl_fetch"
    /\ call("amo_download")
    /\ \/ addFile(PkgFile(version)) /\ Done("stored", "dl_remove")
       \/ UNCHANGED files /\ Done("stored_mismatch", "dl_remove")
       \/ UNCHANGED files /\ Raise("fetch")
    /\ UNCHANGED <<conf, head, ledgerFile, index, manifest, latestPkg,
                   latestChangelog, repo, inst, dl, hist>>

\* download_from_mozilla_addons: fetch the approved package, compare its
\* checksum (a mismatch is logged only), write it to self.path
fetch_from_mozilla_addons ==
    /\ pc = "dl_fetch"
    /\ call("amo_download")
    /\ \/ /\ addFile(PkgFile(version))
          /\ \E checksumOk \in BOOLEAN :
                 Done(IF checksumOk THEN "stored" ELSE "stored_mismatch",
                      "dl_remove")
       \/ /\ UNCHANGED files
          /\ Raise("fetch")
    /\ UNCHANGED <<conf, head, ledgerFile, index, manifest, latestPkg,
                   latestChangelog, repo, inst, dl, hist>>

\* download_from_mozilla_addons: remove_from_downloads_lockfile(type,
\* 'version', version), after the package was stored or the review failed
removeStep(here, step) ==
    /\ pc = here
    /\ removeCall(type, "version", version)
    /\ Done(step, "dl_exists")
    /\ UNCHANGED <<conf, head, pub, repo, inst, dl, storeCalls, atStart,
                   atPointer, lastBuild, processed, errors>>

remove_approved == removeStep("dl_remove", "removed")

remove_rejected == removeStep("dl_reject", "rejected")

\* download(): if os.path.exists(self.path), else the next entry
\* (the response is local to download_from_mozilla_addons, which returned)
download_exists ==
    /\ pc = "dl_exists"
    /\ IF PkgFile(path.version) \in files[repo]
       THEN pc' = "dl_changelog" /\ UNCHANGED dlIndex
       ELSE pc' = "dl_loop" /\ dlIndex' = dlIndex + 1
    /\ response' = {}
    /\ UNCHANGED <<conf, head, ledgerFile, pub, repo, inst, download_info,
                   storeCalls, trace, raisedAt, hist>>

download_writeChangelog == pc = "dl_changelog" /\ writeChangelog("dl_manifest")

download_writeUpdateManifest ==
    pc = "dl_manifest" /\ writeUpdateManifest("dl_retire")

download_retireBuilds == pc = "dl_retire" /\ retire("dl_index")

download_updateIndex == pc = "dl_index" /\ updateIndex("dl_link")

\* download(): self.symlink_or_copy(self.path, linkPath), then the next entry
download_link ==
    /\ pc = "dl_link"
    /\ \/ /\ latestPkg' = [latestPkg EXCEPT ![repo] = path.version]
          /\ dlIndex' = dlIndex + 1
          /\ Done("link", "dl_loop")
       \/ /\ UNCHANGED <<latestPkg, dlIndex>>
          /\ Raise("link")
    /\ UNCHANGED <<conf, head, ledgerFile, files, index, manifest,
                   latestChangelog, repo, inst, download_info, response,
                   storeCalls, hist>>

\* ------------------------------------------------------------------------
\* Specification
\* ------------------------------------------------------------------------

Next ==
    \/ \E i \in Indexes(repos) : Commit(i)
    \/ main
    \/ NightlyBuild_init
    \/ main_dispatch
    \/ run_copyRepository
    \/ run_getCurrentBuild
    \/ run_readMetadata
    \/ build
    \/ run_writeChangelog
    \/ run_writeUpdateManifest
    \/ run_retireBuilds
    \/ run_writeIEUpdateManifest
    \/ run_updateIndex
    \/ run_setLatestRevision
    \/ uploadToMozillaAddons
    \/ cws_token
    \/ cws_upload
    \/ cws_publish
    \/ ws_token
    \/ ws_getapp
    \/ ws_delete
    \/ ws_create
    \/ ws_update
    \/ ws_uploadfile
    \/ ws_commit
    \/ finally
    \/ main_except
    \/ main_next
    \/ main_writeConfig
    \/ download
    \/ download_copyRepository
    \/ download_readGeckoMetadata
    \/ download_loop
    \/ query_mozilla_addons
    \/ fetch_from_mozilla_addons
    \/ remove_approved
    \/ remove_rejected
    \/ download_exists
    \/ download_writeChangelog
    \/ download_writeUpdateManifest
    \/ download_retireBuilds
    \/ download_updateIndex
    \/ download_link

Spec == Init /\ [][Next]_vars

\* ------------------------------------------------------------------------
\* retireBuilds() on directories of any size
\* ------------------------------------------------------------------------

Min(a, b) == IF a <= b THEN a ELSE b

\* the sizes explored: few artifacts, and around MAX_BUILDS
DirSizes == (0..2) \cup ((MAX_BUILDS - 1)..(MAX_BUILDS + MaxExtra))

\* version tokens of n artifacts: two segments; one segment (9 against 10);
\* a gap after every version and three segments; mixed lengths, with "1" and
\* "1.0", which rank equal, as the lowest
VersionSets(n) ==
    {{<<0, i>> : i \in 1..n},
     {<<i>> : i \in 1..n},
     {<<0, 2 * i, 1>> : i \in 1..n},
     {<<1, i>> : i \in 0..(n - 2)} \cup (IF n > 0 THEN {<<1>>} ELSE {})}

\* a directory: the packages, and the changelogs of some of them
Directory(vs, withLogs) ==
    {PkgFile(v) : v \in vs}
        \cup {ChangelogFile(v) : v \in {w \in vs : withLogs /\ w[Len(w)] % 2 = 0}}

Directories ==
    UNION {{Directory(vs, b) : vs \in VersionSets(n), b \in BOOLEAN} :
               n \in DirSizes}

\* the ie platform, whose run() starts with retireBuilds()
InitRetire ==
    \E d \in Directories : Setup(<<Repo("ie", {})>>, d, NoFile, "init")

NextRetire == NightlyBuild_init \/ main_dispatch \/ run_retireBuilds

SpecRetire == InitRetire /\ [][NextRetire]_vars

\* ------------------------------------------------------------------------
\* The lock file functions on any document
\* ------------------------------------------------------------------------

LedgerPlatforms == {"gecko", "chrome"}

Entry(v) == [buildtype |-> "devbuild", app_id |-> 1, version |-> v]

\* entries as uploadToMozillaAddons writes them, and one without buildtype
LedgerEntries ==
    {Entry(<<1, 1>>), Entry(<<1, 2>>), [app_id |-> 2, version |-> <<1, 1>>]}

FilterKeys == {"version", "app_id", "buildtype", "channel"}

FilterValues(k) ==
    IF k = "version" THEN {<<1, 1>>, <<1, 2>>, <<9>>}
    ELSE IF k = "app_id" THEN {1, 3}
    ELSE {"devbuild", "release"}

\* documents the two functions can have written
LedgerFiles ==
    {NoFile,
     write_downloads_lockfile(EmptyDoc),
     write_downloads_lockfile([k \in {"gecko"} |-> <<Entry(<<1, 1>>)>>]),
     write_downloads_lockfile([k \in {"chrome"} |-> <<Entry(<<1, 2>>)>>]),
     write_downloads_lockfile(
         [k \in LedgerPlatforms |->
             IF k = "gecko" THEN <<Entry(<<1, 1>>), Entry(<<1, 2>>)>>
             ELSE <<Entry(<<1, 1>>)>>])}

InitLedger ==
    \E l \in LedgerFiles :
        Setup(<<Repo("gecko", GeckoOptions)>>, EmptyDir, l, "ledger")

LedgerRest ==
    <<conf, head, pub, repo, inst, dl, storeCalls, trace, raisedAt, pc,
      atStart, atPointer, lastBuild, processed, errors>>

ledger_add ==
    /\ pc = "ledger"
    /\ Len(lockCalls) < MaxCalls
    /\ \E platform \in LedgerPlatforms, values \in LedgerEntries :
           addCall(platform, values)
    /\ UNCHANGED LedgerRest

ledger_remove ==
    /\ pc = "ledger"
    /\ Len(lockCalls) < MaxCalls
    /\ \E platform \in LedgerPlatforms, filter_key \in FilterKeys :
           \E filter_value \in FilterValues(filter_key) :
               removeCall(platform, filter_key, filter_value)
    /\ UNCHANGED LedgerRest

NextLedger == ledger_add \/ ledger_remove

SpecLedger == InitLedger /\ [][NextLedger]_vars

\* ------------------------------------------------------------------------
\* The OpenID handler (sitescripts/openid/web/server.py)
\* ------------------------------------------------------------------------

\* the request parameters explored: none, and openid.mode with the modes
\* the server knows and one it does not
NoParams == [k \in {} |-> ""]
CheckidModes == {"checkid_immediate", "checkid_setup"}
ServerModes == CheckidModes \cup {"associate", "check_authentication"}
ParamSets ==
    {NoParams}
        \cup {[k \in {"openid.mode"} |-> m] : m \in ServerModes \cup {"logout"}}

Addresses == {"127.0.0.1", "192.0.2.7"}
ContentTypes == {"application/x-www-form-urlencoded", "multipart/form-data"}

\* params[key] = value for the pairs of b, over those of a
overlay(a, b) ==
    [k \in DOMAIN a \cup DOMAIN b |-> IF k \in DOMAIN b THEN b[k] ELSE a[k]]

\* everything but the handler
nightlies ==
    <<repos, head, nightliesData, nightlyConfig, ledgerFile, lockBytes,
      files, index, manifest, latestPkg, latestChangelog, passes, mode, pc,
      repo, revision, previousRevision, tempdir, workspace, tempFiles,
      buildNum, version, path, versions, download_info, dlIndex, response,
      storeCalls, lockCalls, trace, raisedAt, atStart, atPointer, lastBuild,
      processed, errors>>

\* the web server calls handleRequest(environ, start_response)
openid_call ==
    /\ openid.pc = "idle"
    /\ \E method \in {"GET", "POST"}, ctype \in ContentTypes,
          query \in ParamSets, post \in ParamSets,
          remote \in Addresses, server \in Addresses :
           openid' = [pc |-> "params", REQUEST_METHOD |-> method,
                      CONTENT_TYPE |-> ctype, QUERY_STRING |-> query,
                      input |-> post, REMOTE_ADDR |-> remote,
                      SERVER_ADDR |-> server, params |-> NoParams,
                      requestMode |-> "", answer |-> "none",
                      sreg |-> FALSE, status |-> "", body |-> ""]
    /\ UNCHANGED nightlies

\* handleRequest: the parameters of the query string, and over them those
\* of the body of a form POST; reading the body (read() is handed the
\* CONTENT_LENGTH of the environ as it stands) may raise
handleRequest_params ==
    /\ openid.pc = "params"
    /\ IF /\ openid.REQUEST_METHOD = "POST"
          /\ openid.CONTENT_TYPE = "application/x-www-form-urlencoded"
       THEN \/ openid' =
                  [openid EXCEPT
                      !.pc = "decode",
                      !.params = overlay(openid.QUERY_STRING, openid.input)]
            \/ openid' = [openid EXCEPT !.pc = "raised"]
       ELSE openid' = [openid EXCEPT !.pc = "decode",
                                    !.params = openid.QUERY_STRING]
    /\ UNCHANGED nightlies

\* openIDServer.decodeRequest(params): None for no parameters, ProtocolError
\* for a mode the server does not know or a request it cannot decode, the
\* request otherwise
decodeRequest ==
    /\ openid.pc = "decode"
    /\ \/ /\ openid.params = NoParams
          /\ openid' = [openid EXCEPT !.pc = "empty"]
       \/ /\ openid.params /= NoParams
          /\ openid.params["openid.mode"] \in ServerModes
          /\ openid' = [openid EXCEPT
                            !.pc = "decoded",
                            !.requestMode = openid.params["openid.mode"]]
       \/ /\ openid.params /= NoParams
          /\ openid' = [openid EXCEPT !.pc = "display",
                                      !.body = "ProtocolError"]
    /\ UNCHANGED nightlies

\* handleRequest: if request is None: showErrorPage
handleRequest_empty ==
    /\ openid.pc = "empty"
    /\ openid' = [openid EXCEPT !.pc = "done",
                                !.status = "400 Error Processing Request",
                                !.body = "<p>Empty request</p>"]
    /\ UNCHANGED nightlies

\* the checkid branch answering every request positively
handleRequest_checkid_always ==
    /\ openid.pc = "decoded"
    /\ openid.requestMode \in CheckidModes
    /\ \/ openid' = [openid EXCEPT !.pc = "display",
                                   !.answer = "positive",
                                   !.sreg = TRUE,
                                   !.body = "id_res"]
       \/ openid' = [openid EXCEPT !.pc = "raised",
                                   !.answer = "positive"]
    /\ UNCHANGED nightlies

\* handleRequest: the checkid branch: request.answer(True) and
\* addSRegResponse (which raises when the user is not configured) for the
\* server's own address, request.answer(False) for any other
handleRequest_checkid ==
    /\ openid.pc = "decoded"
    /\ openid.requestMode \in CheckidModes
    /\ IF openid.REMOTE_ADDR = openid.SERVER_ADDR
       THEN \/ openid' = [openid EXCEPT !.pc = "display",
                                        !.answer = "positive",
                                        !.sreg = TRUE,
                                        !.body = "id_res"]
            \/ openid' = [openid EXCEPT !.pc = "raised",
                                        !.answer = "positive"]
       ELSE openid' = [openid EXCEPT
                          !.pc = "display",
                          !.answer = "negative",
                          !.body = IF openid.requestMode = "checkid_immediate"
                                   THEN "setup_needed" ELSE "cancel"]
    /\ UNCHANGED nightlies

\* handleRequest: the other modes go to openIDServer.handleRequest
handleRequest_other ==
    /\ openid.pc = "decoded"
    /\ openid.requestMode \notin CheckidModes
    /\ openid' = [openid EXCEPT !.pc = "display",
                                !.body = openid.requestMode]
    /\ UNCHANGED nightlies

\* displayResponse: the encoded response, or the error page when it cannot
\* be encoded
displayResponse ==
    /\ openid.pc = "display"
    /\ \/ \E code \in {"200 OK", "302 OK", "400 OK"} :
              openid' = [openid EXCEPT !.pc = "done", !.status = code]
       \/ openid' = [openid EXCEPT !.pc = "done",
                                   !.status = "400 Error Processing Request",
                                   !.body = "EncodingError"]
    /\ UNCHANGED nightlies

InitOpenID == Setup(<<Repo("gecko", GeckoOptions)>>, EmptyDir, NoFile, "idle")

NextOpenID ==
    \/ openid_call
    \/ handleRequest_params
    \/ decodeRequest
    \/ handleRequest_empty
    \/ handleRequest_checkid
    \/ handleRequest_other
    \/ displayResponse

SpecOpenID == InitOpenID /\ [][NextOpenID]_vars

\* ------------------------------------------------------------------------
\* One call of run() on directories that hold newer versions
\* ------------------------------------------------------------------------

\* MAX_BUILDS builds of a version name above the one of the metadata, as a
\* lowered version number or a switch of branches leaves them
newerVersion(i) == <<2, i>>
NewerDir ==
    {PkgFile(newerVersion(i)) : i \in 1..MAX_BUILDS}
        \cup {ChangelogFile(newerVersion(i)) : i \in 1..MAX_BUILDS}

\* the types built into the public directory, without store options
PublicTypes == {"chrome", "safari", "edge", "android"}

InitPublic ==
    \E t \in PublicTypes, d \in {EmptyDir, OneBuildDir, NewerDir} :
        Setup(<<Repo(t, {})>>, d, NoFile, "init")

NextPublic ==
    \/ NightlyBuild_init
    \/ main_dispatch
    \/ run_copyRepository
    \/ run_getCurrentBuild
    \/ run_readMetadata
    \/ build
    \/ run_writeChangelog
    \/ run_writeUpdateManifest
    \/ run_retireBuilds
    \/ run_updateIndex
    \/ run_setLatestRevision
    \/ finally
    \/ main_except

SpecPublic == InitPublic /\ [][NextPublic]_vars

\* ------------------------------------------------------------------------
\* The write of the lock file step by step, and the process stopping
\* ------------------------------------------------------------------------

\* json.load gets a document out of the file: it does when the whole text
\* of the dump is there; of an empty or cut text it raises ValueError,
\* which read_downloads_lockfile does not catch
loadable(file, bytes) == file.exists => bytes = "all"

InitWrite ==
    \E l \in LedgerFiles :
        Setup(<<Repo("gecko", GeckoOptions)>>, EmptyDir, l, "ledger")

WriteRest ==
    <<repos, openid, nightliesData, nightlyConfig, passes, mode, head, pub,
      repo, revision, previousRevision, tempdir, workspace, tempFiles,
      buildNum, version, path, versions, dlIndex, response, storeCalls,
      trace, atPointer, lastBuild, processed, errors>>

\* a call of add_to_downloads_lockfile or remove_from_downloads_lockfile
\* up to its call of write_downloads_lockfile: `current` is read and
\* changed in memory; the read raises when the file does not parse
lock_call(changed, record) ==
    /\ pc = "ledger"
    /\ Len(lockCalls) < MaxCalls
    /\ IF loadable(ledgerFile, lockBytes)
       THEN /\ download_info' = changed
            /\ lockCalls' = Append(lockCalls, record)
            /\ atStart' = [atStart EXCEPT !.ledger = ledgerFile]
            /\ pc' = "open"
            /\ UNCHANGED raisedAt
       ELSE /\ raisedAt' = "read_downloads_lockfile"
            /\ pc' = "raised"
            /\ UNCHANGED <<download_info, lockCalls, atStart>>
    /\ UNCHANGED <<ledgerFile, lockBytes, WriteRest>>

lock_add ==
    /\ pc = "ledger"
    /\ \E platform \in LedgerPlatforms, values \in LedgerEntries :
        lock_call(appendEntry(read_downloads_lockfile(ledgerFile), platform,
                              values),
                  [op |-> "add", platform |-> platform, entry |-> values,
                   filter_key |-> "", filter_value |-> <<>>,
                   before |-> read_downloads_lockfile(ledgerFile)])

lock_remove ==
    /\ pc = "ledger"
    /\ \E platform \in LedgerPlatforms, filter_key \in FilterKeys :
        \E filter_value \in FilterValues(filter_key) :
            lock_call(removeEntries(read_downloads_lockfile(ledgerFile),
                                    platform, filter_key, filter_value),
                      [op |-> "remove", platform |-> platform,
                       entry |-> <<>>, filter_key |-> filter_key,
                       filter_value |-> filter_value,
                       before |-> read_downloads_lockfile(ledgerFile)])

\* write_downloads_lockfile: open(path, 'w') creates the file or cuts it
\* to length zero
write_open ==
    /\ pc = "open"
    /\ ledgerFile' = write_downloads_lockfile(download_info)
    /\ lockBytes' = "none"
    /\ pc' = "dump"
    /\ UNCHANGED <<download_info, lockCalls, atStart, raisedAt, WriteRest>>

\* json.dump(values, fp): the encoder hands the text to fp.write chunk by
\* chunk; a part of it reaches the file when the buffer of fp fills
write_dump ==
    /\ pc = "dump"
    /\ lockBytes = "none"
    /\ lockBytes' = "part"
    /\ UNCHANGED <<ledgerFile, pc, download_info, lockCalls, atStart,
                   raisedAt, WriteRest>>

\* the with block ends: the rest of the text is flushed, the file closed
write_close ==
    /\ pc = "dump"
    /\ lockBytes' = "all"
    /\ pc' = "ledger"
    /\ UNCHANGED <<ledgerFile, download_info, lockCalls, atStart, raisedAt,
                   WriteRest>>

\* the process stops (it is killed, the machine goes down); what it had in
\* memory is lost, the file stays as it is
stop ==
    /\ pc \in {"ledger", "open", "dump"}
    /\ pc' = "stopped"
    /\ download_info' = EmptyDoc
    /\ UNCHANGED <<ledgerFile, lockBytes, lockCalls, atStart, raisedAt,
                   WriteRest>>

\* a later process calls read_downloads_lockfile
restart ==
    /\ pc = "stopped"
    /\ IF loadable(ledgerFile, lockBytes)
       THEN /\ download_info' = read_downloads_lockfile(ledgerFile)
            /\ pc' = "ledger"
            /\ UNCHANGED raisedAt
       ELSE /\ raisedAt' = "read_downloads_lockfile"
            /\ pc' = "raised"
            /\ UNCHANGED download_info
    /\ UNCHANGED <<ledgerFile, lockBytes, lockCalls, atStart, WriteRest>>

NextWrite ==
    \/ lock_add
    \/ lock_remove
    \/ write_open
    \/ write_dump
    \/ write_close
    \/ stop
    \/ restart

SpecWrite == InitWrite /\ [][NextWrite]_vars

\* ------------------------------------------------------------------------
\* Two repositories of the downloadable type
\* ------------------------------------------------------------------------

\* Both repositories upload to the vendor; their entries go to the one
\* bucket of the lock file that is named after the type.  The repositories
\* do not change while the passes run.
InitShared ==
    Setup(<<Repo("gecko", GeckoOptions), Repo("gecko", GeckoOptions)>>,
          EmptyDir, NoFile, "idle")

NextShared ==
    \/ main
    \/ NightlyBuild_init
    \/ main_dispatch
    \/ run_copyRepository
    \/ run_getCurrentBuild
    \/ run_readMetadata
    \/ build
    \/ run_retireBuilds
    \/ run_setLatestRevision
    \/ uploadToMozillaAddons
    \/ finally
    \/ main_except
    \/ main_next
    \/ main_writeConfig
    \/ download
    \/ download_copyRepository
    \/ download_readGeckoMetadata
    \/ download_loop
    \/ query_mozilla_addons
    \/ fetch_from_mozilla_addons
    \/ remove_approved
    \/ remove_rejected
    \/ download_exists
    \/ download_writeChangelog
    \/ download_writeUpdateManifest
    \/ download_retireBuilds
    \/ download_updateIndex
    \/ download_link

SpecShared == InitShared /\ [][NextShared]_vars

\* ------------------------------------------------------------------------
\* One call of run(), for every choice of store options
\* ------------------------------------------------------------------------

\* every build type, the types with a store publisher with every subset of
\* the options its upload asks for
OptionChoices ==
    {<<Repo("gecko", o)>> : o \in SUBSET GeckoOptions}
        \cup {<<Repo("chrome", o)>> : o \in SUBSET ChromeOptions}
        \cup {<<Repo("edge", o)>> : o \in SUBSET EdgeOptions}
        \cup {<<Repo(t, {})>> : t \in {"safari", "android", "ie"}}

\* main() has taken up the repository, which has a new revision
InitRun == \E r \in OptionChoices : Setup(r, OneBuildDir, NoFile, "init")

NextRun ==
    \/ NightlyBuild_init
    \/ main_dispatch
    \/ run_copyRepository
    \/ run_getCurrentBuild
    \/ run_readMetadata
    \/ build
    \/ run_writeChangelog
    \/ run_writeUpdateManifest
    \/ run_retireBuilds
    \/ run_writeIEUpdateManifest
    \/ run_updateIndex
    \/ run_setLatestRevision
    \/ uploadToMozillaAddons
    \/ cws_token
    \/ cws_upload
    \/ cws_publish
    \/ ws_token
    \/ ws_getapp
    \/ ws_delete
    \/ ws_create
    \/ ws_update
    \/ ws_uploadfile
    \/ ws_commit
    \/ finally
    \/ main_except

SpecRun == InitRun /\ [][NextRun]_vars

\* ------------------------------------------------------------------------
\* Properties
\* ------------------------------------------------------------------------

\* positions of run() behind the entry condition
UploadPositions ==
    {"amo_upload", "cws_token", "cws_upload", "cws_publish", "ws_token",
     "ws_getapp", "ws_delete", "ws_create", "ws_update", "ws_uploadfile",
     "ws_commit"}

RunPositions ==
    {"copy", "buildnum", "metadata", "build", "changelog", "manifest",
     "retire", "iemanifest", "index", "setpointer"} \cup UploadPositions

\* the steps of the store publishers, as raisedAt names them
UploadSteps ==
    {"uploadToMozillaAddons", "cws_token", "cws_upload",
     "uploadToChromeWebStore", "ws_token", "ws_getapp", "ws_delete",
     "ws_create", "ws_update", "ws_uploadfile", "upload_to_windows_store"}

\* the steps that precede the first write to the public directory
BeforeBuild ==
    {"init", "copyRepository", "getCurrentBuild", "readMetadata",
     "readGeckoMetadata"}

InOrder(r) == [i \in 1..Len(r) |-> i]

pointerAssigned == "latestRevision" \in Range(trace)

\* C1 as stated: whenever the loop of main() catches an exception of
\* repository k, the revision pointer and the public directory of k are as
\* they were when k was taken up.
C1_Unchanged_On_Any_Exception ==
    pc = "except" =>
        /\ nightlyConfig[repo] = atStart.pointer
        /\ PubState(repo) = atStart.pub

\* C1 amended: an exception of repository k is caught and logged by the loop,
\* the repositories after k are taken up in configuration order and the pass
\* reaches its end; the pointer of k is as it was unless run() had assigned
\* it before the exception, and the public directory of k is as it was when
\* the exception came before the build step.
C1_Isolation ==
    /\ pc = "except" =>
          /\ ~pointerAssigned => nightlyConfig[repo] = atStart.pointer
          /\ raisedAt \in BeforeBuild => PubState(repo) = atStart.pub
    /\ (pc = "next" /\ raisedAt /= "none") =>
          errors /= <<>> /\ errors[Len(errors)] = repo
    /\ pc \notin {"idle", "done", "writeconfig"} =>
          processed = InOrder(processed) /\ Len(processed) \in {repo - 1, repo}
    /\ pc \in {"writeconfig", "done"} => processed = InOrder(repos)

\* C1 witness: a pass over two repositories ended, the first failed and was
\* logged, the second was built
C1_Witness ==
    /\ pc = "done"
    /\ Len(repos) = 2
    /\ errors = <<1>>
    /\ processed = <<1, 2>>
    /\ lastBuild[2].kind = "ok"

\* C2: when run() raises before the pointer assignment, latestRevision keeps
\* its previous value, in memory and as persisted; the next build pass that
\* resolves the same revision sees a change and enters run() again.
C2_Retry_After_Failure ==
    /\ (pc = "except" /\ mode = "build" /\ raisedAt /= "init"
            /\ ~pointerAssigned) =>
          /\ nightlyConfig[repo] = previousRevision
          /\ nightlyConfig[repo] /= revision
    /\ pc = "done" =>
          \A i \in Indexes(repos) :
              (lastBuild[i].kind = "failed" /\ ~lastBuild[i].pointerSet
                   /\ lastBuild[i].rev /= 0) =>
                  nightliesData[i] /= lastBuild[i].rev
    /\ (pc = "dispatch" /\ mode = "build" /\ lastBuild[repo].kind = "failed"
            /\ ~lastBuild[repo].pointerSet /\ lastBuild[repo].rev = revision) =>
          revision /= previousRevision
    /\ (pc = "next" /\ mode = "build" /\ revision /= previousRevision) =>
          trace /= <<>> \/ raisedAt /= "none"

\* C2 witness: run() is entered again, with nothing done yet, for the
\* revision whose build failed in an earlier pass
C2_Witness ==
    /\ pc \in {"copy", "retire"}
    /\ trace = <<>>
    /\ tempdir = "none"
    /\ lastBuild[repo].kind = "failed"
    /\ ~lastBuild[repo].pointerSet
    /\ lastBuild[repo].rev = revision

\* C3: in build mode run() is entered only when the resolved revision differs
\* from the persisted one; a repository whose last build pass succeeded for
\* the revision now resolved is left alone: no clone, no step of run(), no
\* change of its directory or of the lock file, no vendor request.
C3_NoChange_NoOp ==
    /\ (mode = "build" /\ pc \in RunPositions) => revision /= previousRevision
    /\ (pc = "dispatch" /\ mode = "build" /\ lastBuild[repo].kind = "ok"
            /\ lastBuild[repo].rev = revision) =>
          revision = previousRevision
    /\ (pc = "next" /\ mode = "build" /\ raisedAt = "none"
            /\ revision = previousRevision) =>
          /\ trace = <<>>
          /\ storeCalls = <<>>
          /\ tempdir = "none"
          /\ PubState(repo) = atStart.pub
          /\ ledgerFile = atStart.ledger
          /\ nightlyConfig[repo] = atStart.pointer

\* C3 witness: the loop passed a repository by whose last build pass had
\* succeeded for the same revision
C3_Witness ==
    /\ pc = "next"
    /\ mode = "build"
    /\ raisedAt = "none"
    /\ passes = 2
    /\ revision = previousRevision
    /\ revision = nightliesData[repo]
    /\ lastBuild[repo].kind = "nochange"
    /\ PkgFile(buildVersion(type, revision)) \in files[repo]

C6_Retention_Cap ==
    (type = "ie" /\ pc = "iemanifest") =>
        LET before == listVersions(atStart.pub.files)
            after == listVersions(files[repo])
            gone == before \ after
        IN /\ after \subseteq before
           /\ Cardinality(after) = Min(Cardinality(before), MAX_BUILDS)
           /\ \A d \in gone, k \in after : compareVersions(k, d) >= 0
           /\ Cardinality(before) <= MAX_BUILDS =>
                 files[repo] = atStart.pub.files
           /\ atStart.pub.files \ files[repo] \subseteq
                 {PkgFile(v) : v \in gone} \cup {ChangelogFile(v) : v \in gone}
           /\ files[repo] \subseteq atStart.pub.files
           /\ Range(versions) = after
           /\ Len(versions) = Cardinality(after)

\* C6 witness: retireBuilds() ran on a directory of more than MAX_BUILDS
\* packages and deleted some, a changelog among them
C6_Witness ==
    /\ type = "ie"
    /\ pc = "iemanifest"
    /\ Cardinality(listVersions(atStart.pub.files)) > MAX_BUILDS + 1
    /\ Cardinality(listVersions(files[repo])) = MAX_BUILDS
    /\ \E f \in atStart.pub.files \ files[repo] : f.kind = "changelog"

\* the document after the i-th call of a lock file function
docAfter(i) ==
    IF i = Len(lockCalls) THEN read_downloads_lockfile(ledgerFile)
    ELSE lockCalls[i + 1].before

\* call i added an entry for a platform without entries and call i + 1
\* removes by a key of that entry and the value the entry has for it
AddThenRemove(i) ==
    /\ i + 1 <= Len(lockCalls)
    /\ lockCalls[i].op = "add"
    /\ lockCalls[i + 1].op = "remove"
    /\ lockCalls[i + 1].platform = lockCalls[i].platform
    /\ lockCalls[i].platform \notin DOMAIN lockCalls[i].before
    /\ lockCalls[i + 1].filter_key \in DOMAIN lockCalls[i].entry
    /\ lockCalls[i + 1].filter_value
           = lockCalls[i].entry[lockCalls[i + 1].filter_key]

\* C7: an add for a platform without entries followed by the removal by a
\* key of the entry and its value leaves the document as it was before the
\* add, the buckets of the other platforms included.
C7_Add_Remove_RoundTrip ==
    \A i \in 1..Len(lockCalls) :
        AddThenRemove(i) =>
            /\ docAfter(i + 1) = lockCalls[i].before
            /\ docAfter(i) /= lockCalls[i].before
            /\ docAfter(i)[lockCalls[i].platform] = <<lockCalls[i].entry>>

\* C7 witness: an entry was added for gecko, which had no bucket while
\* chrome had one, and removed by its version
C7_Witness ==
    /\ Len(lockCalls) = 2
    /\ AddThenRemove(1)
    /\ lockCalls[1].platform = "gecko"
    /\ lockCalls[2].filter_key = "version"
    /\ DOMAIN lockCalls[1].before = {"chrome"}
    /\ ledgerFile.exists

\* no entry of the bucket of the platform carries the value under the key
NothingToRemove(c) ==
    \/ c.platform \notin DOMAIN c.before
    \/ \A j \in 1..Len(c.before[c.platform]) :
           LET entry == c.before[c.platform][j]
           IN ~(c.filter_key \in DOMAIN entry
                    /\ entry[c.filter_key] = c.filter_value)

\* C8: a removal for a platform without bucket, or by a value no entry of
\* the bucket carries, completes and leaves the document as it was; the
\* file holds that document afterwards.
C8_Remove_Absent_NoOp ==
    \A i \in 1..Len(lockCalls) :
        (lockCalls[i].op = "remove" /\ NothingToRemove(lockCalls[i])) =>
            /\ docAfter(i) = lockCalls[i].before
            /\ i = Len(lockCalls) => ledgerFile.exists

\* C8 witness: the same removal twice; the first deleted the entry, the
\* second found nothing
C8_Witness ==
    /\ Len(lockCalls) = 2
    /\ lockCalls[1].op = "remove"
    /\ lockCalls[2].op = "remove"
    /\ lockCalls[2].platform = lockCalls[1].platform
    /\ lockCalls[2].filter_key = "version"
    /\ lockCalls[1].filter_key = "version"
    /\ lockCalls[2].filter_value = lockCalls[1].filter_value
    /\ lockCalls[2].before /= lockCalls[1].before
    /\ NothingToRemove(lockCalls[2])
    /\ read_downloads_lockfile(ledgerFile) = lockCalls[2].before

\* the lock file holds an entry of the platform for the version
inLedger(platform, v) ==
    LET current == read_downloads_lockfile(ledgerFile)
    IN /\ platform \in DOMAIN current
       /\ \E j \in 1..Len(current[platform]) :
              current[platform][j].version = v

\* the vendor has processed and validated the upload and not reviewed it yet
awaitingReview(r) ==
    /\ {"processed", "valid"} \subseteq r
    /\ "reviewed" \notin r
    /\ "passed_review" \notin r

\* C9: a download pass that finds an entry whose upload the vendor has not
\* reviewed yet, neither approved nor rejected, leaves the entry in the
\* lock file.
C9_Entry_Kept_While_Awaiting_Review ==
    (mode = "download" /\ pc = "dl_exists" /\ awaitingReview(response)) =>
        inLedger(type, version)

PublicationSteps ==
    {"writeChangelog", "writeUpdateManifest", "retireBuilds", "updateIndex",
     "link"}

\* C10: in download mode the entry of an approved version is removed from
\* the lock file after changelog, manifest, index and the latest link are
\* written; when one of these steps raises for a package that was stored
\* the entry is still in the lock file.
C10_Entry_Removed_After_Publication ==
    (mode = "download" /\ pc = "except" /\ raisedAt \in PublicationSteps
         /\ Range(trace) \cap {"stored", "stored_mismatch"} /= {}) =>
        inLedger(type, version)

\* the positions of download() behind the test os.path.exists(self.path)
DownloadPublication ==
    {"dl_changelog", "dl_manifest", "dl_retire", "dl_index", "dl_link"}

\* C11: in download mode no publication step runs for an entry the vendor
\* reports as rejected: after the entry was removed from the lock file
\* download() goes on with the next entry, and writes no changelog,
\* manifest, index or latest link while it handles the rejected one.
C11_Rejected_No_Publication ==
    (mode = "download" /\ "rejected" \in Range(trace)) =>
        /\ pc \notin DownloadPublication
        /\ Range(trace) \cap PublicationSteps = {}

\* the bucket of a platform in a document, empty when there is none
bucket(current, platform) ==
    IF platform \in DOMAIN current THEN current[platform] ELSE <<>>

\* the steps of download() for an approved entry, `stored` being the outcome
\* of the checksum comparison
ApprovedSteps(stored) ==
    <<"status", stored, "removed", "writeChangelog", "writeUpdateManifest",
      "retireBuilds", "updateIndex", "link">>

\* C12: a checksum mismatch of the downloaded package is logged only: the
\* package is in the public directory, the entry is removed from the lock
\* file, and changelog, manifest, index and latest link are written by the
\* same steps as for a package whose checksum matches.
C12_Checksum_Mismatch_Only_Logged ==
    (mode = "download" /\ "stored_mismatch" \in Range(trace)) =>
        /\ raisedAt /= "fetch"
        /\ "retireBuilds" \notin Range(trace) => PkgFile(version) \in files[repo]
        /\ pc /= "dl_remove" =>
              /\ "removed" \in Range(trace)
              /\ lockCalls /= <<>>
              /\ LET c == lockCalls[Len(lockCalls)]
                 IN /\ c.op = "remove"
                    /\ c.filter_key = "version"
                    /\ c.filter_value = version
                    /\ Len(bucket(docAfter(Len(lockCalls)), type))
                           < Len(bucket(c.before, type))
        /\ \E k \in 1..Len(ApprovedSteps("stored")) :
               /\ trace = SubSeq(ApprovedSteps("stored_mismatch"), 1, k)
               /\ [i \in 1..k |-> IF trace[i] = "stored_mismatch"
                                  THEN "stored" ELSE trace[i]]
                      = SubSeq(ApprovedSteps("stored"), 1, k)
        /\ (pc = "dl_loop" /\ raisedAt = "none") =>
              /\ trace = ApprovedSteps("stored_mismatch")
              /\ ChangelogFile(version) \in files[repo]
              /\ manifest[repo] = version
              /\ latestPkg[repo] = version
              /\ latestChangelog[repo] = version
              /\ \E k \in DOMAIN index[repo] : index[repo][k].version = version

\* C12 witness: the publication of a package whose checksum did not match
\* is complete
C12_Witness ==
    /\ mode = "download"
    /\ pc = "dl_loop"
    /\ trace = ApprovedSteps("stored_mismatch")
    /\ PkgFile(version) \in files[repo]
    /\ ~inLedger(type, version)

\* C13: when the vendor accepts the upload, uploadToMozillaAddons appends
\* one entry {buildtype devbuild, app_id, version} to the end of the bucket
\* of the platform, by one call, and the local package is gone; when the
\* upload fails the lock file is as it was, no call was made, and main()
\* gets the exception.
C13_Upload_Records_Entry ==
    /\ (mode = "build" /\ pc = "finally" /\ trace /= <<>>
            /\ trace[Len(trace)] = "uploadToMozillaAddons") =>
          LET before == read_downloads_lockfile(atStart.ledger)
              after == read_downloads_lockfile(ledgerFile)
              entry == [buildtype |-> "devbuild", app_id |-> repo,
                        version |-> version]
          IN /\ ledgerFile.exists
             /\ bucket(after, type) = Append(bucket(before, type), entry)
             /\ DOMAIN after = DOMAIN before \cup {type}
             /\ \A k \in DOMAIN before \ {type} : after[k] = before[k]
             /\ Len(lockCalls) = 1
             /\ lockCalls[1].op = "add"
             /\ lockCalls[1].entry = entry
             /\ version \notin tempFiles
    /\ raisedAt = "uploadToMozillaAddons" =>
          /\ ledgerFile = atStart.ledger
          /\ lockCalls = <<>>
          /\ pc \in {"finally", "except", "next"}
          /\ pc = "next" => errors /= <<>> /\ errors[Len(errors)] = repo

\* C13 witness: the upload was accepted and its entry follows the entry of
\* an earlier upload
C13_Witness ==
    /\ mode = "build"
    /\ pc = "finally"
    /\ trace /= <<>>
    /\ trace[Len(trace)] = "uploadToMozillaAddons"
    /\ Len(bucket(read_downloads_lockfile(ledgerFile), type)) = 2
    /\ bucket(read_downloads_lockfile(ledgerFile), type)[2].version = version
    /\ bucket(read_downloads_lockfile(ledgerFile), type)[1].version /= version

\* C14: after the store upload of a repository has failed, the next build
\* pass that resolves the same revision sees a change, so that it enters
\* run() and issues the upload again.
C14_Upload_Retriggered ==
    (mode = "build" /\ pc = "dispatch" /\ lastBuild[repo].kind = "failed"
         /\ lastBuild[repo].pointerSet /\ lastBuild[repo].rev = revision) =>
        revision /= previousRevision

\* the positions of main(), outside run() and download()
MainPositions ==
    {"idle", "init", "dispatch", "download", "except", "next", "writeconfig",
     "done"}

\* C15: outside run() and download() no temporary directory exists: the one
\* the method created is removed when the method returns and when it raises,
\* a failed clone included (the removal itself is taken to succeed); the
\* directory is created anew where the method clones, and holds a clone
\* made after the revision was resolved.
C15_Workspace_Removed ==
    /\ pc \in MainPositions =>
          /\ tempdir /= "exists"
          /\ tempFiles = {}
          /\ workspace = 0
    /\ pc \in {"copy", "dl_copy"} =>
          /\ tempdir = "none"
          /\ tempFiles = {}
          /\ workspace = 0
    /\ (tempdir = "exists" /\ workspace /= 0) =>
          /\ workspace >= revision
          /\ workspace <= head[repo]
    /\ tempdir = "removed" => pc \in {"except", "next"}

\* C15 witness: the clone failed after the directory was made, and the
\* directory is removed when main() gets the exception
C15_Witness ==
    /\ pc = "except"
    /\ raisedAt = "copyRepository"
    /\ tempdir = "removed"

\* the steps of run() before the store upload, by build type
LocalSteps(t) ==
    IF t = "ie"
    THEN <<"retireBuilds", "writeIEUpdateManifest", "updateIndex",
           "latestRevision">>
    ELSE IF t \in downloadable_repos
    THEN <<"copyRepository", "getCurrentBuild", "readMetadata", "build",
           "retireBuilds", "latestRevision">>
    ELSE <<"copyRepository", "getCurrentBuild", "readMetadata", "build",
           "writeChangelog", "writeUpdateManifest", "retireBuilds",
           "updateIndex", "latestRevision">>

inRun == mode = "build" /\ pc \in RunPositions \cup {"finally", "except", "next"}

\* C16 as stated: no changelog, update manifest or index is written before
\* retireBuilds() has run, and no store request is issued before they are
\* written.
C16_Retention_Before_Publication ==
    inRun =>
        /\ Range(trace) \cap {"writeChangelog", "writeUpdateManifest",
                              "updateIndex"} /= {} =>
               "retireBuilds" \in Range(trace)
        /\ storeCalls /= <<>> =>
               {"writeChangelog", "writeUpdateManifest", "updateIndex"}
                   \subseteq Range(trace)

\* C16 amended: the steps of run() happen in the order build, changelog,
\* update manifest, retention, index, pointer assignment, store upload (for
\* gecko: build, retention, pointer assignment, store upload; for ie:
\* retention, IE update manifest, index, pointer assignment); the index is
\* not written before retireBuilds() has run and no store request is issued
\* before the steps in front of it are done.
C16_Step_Order ==
    inRun =>
        LET local == LocalSteps(type)
            n == Min(Len(trace), Len(local))
        IN /\ SubSeq(trace, 1, n) = SubSeq(local, 1, n)
           /\ \A k \in (Len(local) + 1)..Len(trace) : trace[k] \in UploadSteps
           /\ storeCalls /= <<>> => Len(trace) >= Len(local)
           /\ "updateIndex" \in Range(trace) => "retireBuilds" \in Range(trace)

\* C16 witness: a store request is out after changelog, update manifest,
\* retention and index, in this order
C16_Witness ==
    /\ mode = "build"
    /\ type = "chrome"
    /\ storeCalls /= <<>>
    /\ SubSeq(trace, 5, 8) = <<"writeChangelog", "writeUpdateManifest",
                               "retireBuilds", "updateIndex">>

\* the options the upload of the type asks for are all set
FullyConfigured ==
    \/ type = "gecko" /\ {"galleryID", "amo_key"} \subseteq options
    \/ type = "chrome"
           /\ {"clientID", "clientSecret", "refreshToken"} \subseteq options
    \/ type = "edge"
           /\ {"clientID", "tenantID", "privateKey", "thumbprint"}
                  \subseteq options

runReturned ==
    mode = "build" /\ pc = "next" /\ raisedAt = "none" /\ trace /= <<>>

\* C17 as stated: without the full set of options no vendor request is
\* issued, and the pass runs retention and index regeneration and advances
\* the pointer.
C17_No_Upload_Index_Regenerated ==
    (runReturned /\ ~FullyConfigured) =>
        /\ storeCalls = <<>>
        /\ {"retireBuilds", "updateIndex"} \subseteq Range(trace)
        /\ nightlyConfig[repo] = revision

\* C17 amended: a vendor request is issued only when the options of the
\* type are all set, and then the upload is attempted; with one of them
\* missing, and for safari, android and ie, run() issues no request, runs
\* retention, advances the pointer, and regenerates the index for every
\* type but gecko, for which run() writes no index.
C17_Upload_Only_When_Configured ==
    /\ (mode = "build" /\ storeCalls /= <<>>) => FullyConfigured
    /\ (runReturned /\ FullyConfigured) =>
          storeCalls /= <<>> /\ trace[Len(trace)] \in UploadSteps
    /\ (runReturned /\ ~FullyConfigured) =>
          /\ storeCalls = <<>>
          /\ "retireBuilds" \in Range(trace)
          /\ "updateIndex" \in Range(trace) <=> type \notin downloadable_repos
          /\ trace[Len(trace)] = "latestRevision"
          /\ nightlyConfig[repo] = revision

\* C17 witness: run() returned for edge with all options but the
\* thumbprint
C17_Witness ==
    /\ runReturned
    /\ type = "edge"
    /\ options = {"clientID", "tenantID", "privateKey"}
    /\ storeCalls = <<>>
    /\ nightlyConfig[repo] = revision

\* the pass took the repository up with MAX_BUILDS builds in its directory
fromFullDirectory == atStart.pub.files = FullDir

\* the versions of the full directory without the oldest, newest first
survivors == [k \in 1..(MAX_BUILDS - 1) |-> oldVersion(MAX_BUILDS + 1 - k)]

\* the end-to-end outcome: the oldest package and its changelog are gone,
\* the new version leads the surviving list, the index lists exactly the
\* survivors, the changelog alias names the new version and the pointer
\* is the resolved revision
retiredOldest ==
    /\ PkgFile(oldVersion(1)) \notin files[repo]
    /\ ChangelogFile(oldVersion(1)) \notin files[repo]
    /\ versions = <<version>> \o survivors
    /\ [k \in DOMAIN index[repo] |-> index[repo][k].version] = versions
    /\ latestChangelog[repo] = version
    /\ nightlyConfig[repo] = revision

\* C18 as stated, with the cap at MAX_BUILDS: a gecko pass that starts from
\* a full directory and builds a newer version ends with the oldest
\* package and its changelog removed, the new version first in the
\* surviving list, the index listing exactly the survivors, the changelog
\* alias at the new version and the pointer at the resolved revision.
C18_Gecko_Pass_Retires_Oldest ==
    (runReturned /\ type = "gecko" /\ fromFullDirectory) => retiredOldest

\* C18 amended: that outcome is the one of a type built into the public
\* directory (chrome here), with the cap the constant MAX_BUILDS; for gecko
\* run() builds into the temporary directory, so retention removes nothing
\* and the public directory is as it was, while the pointer advances all
\* the same; the pointer of a repository whose run() returned is the one
\* main() persists.
C18_End_To_End ==
    /\ (runReturned /\ type = "chrome" /\ fromFullDirectory) =>
          /\ retiredOldest
          /\ files[repo] =
                 (FullDir \ {PkgFile(oldVersion(1)),
                             ChangelogFile(oldVersion(1))})
                     \cup {PkgFile(version), ChangelogFile(version)}
          /\ Len(versions) = MAX_BUILDS
          /\ latestPkg[repo] = version
    /\ (runReturned /\ type = "gecko" /\ fromFullDirectory) =>
          /\ PubState(repo) = atStart.pub
          /\ Len(versions) = MAX_BUILDS
          /\ nightlyConfig[repo] = revision
    /\ (pc = "done" /\ mode = "build") =>
          \A i \in Indexes(repos) :
              lastBuild[i].kind = "ok" => nightliesData[i] = lastBuild[i].rev

\* C18 witness: the chrome pass that started from the full directory has
\* returned with the upload done, the oldest build retired
C18_Witness ==
    /\ runReturned
    /\ type = "chrome"
    /\ fromFullDirectory
    /\ PkgFile(oldVersion(1)) \notin files[repo]
    /\ versions[1] = version
    /\ storeCalls /= <<>>

\* C19: when build() raises, for any type, no package of the failed build
\* is left at the output path: the public directory holds a package of the
\* version only if it held one when the repository was taken up.
C19_Partial_Output_Removed ==
    (mode = "build" /\ pc = "except" /\ raisedAt = "build") =>
        (PkgFile(version) \in files[repo] =>
             PkgFile(version) \in atStart.pub.files)

\* the type of the repository is none of those run() knows
unknownType == type \notin BuildTypes

\* C20: for a repository of a type run() does not know, run() raises before
\* build() is called: nothing of the public directory changes, no vendor
\* request is issued, the pointer is not advanced, and main() goes on to
\* process every repository.
C20_Unknown_Type_Fatal ==
    /\ (mode = "build" /\ unknownType
            /\ pc \in RunPositions \cup {"finally", "except"}) =>
          /\ pc \in {"copy", "buildnum", "metadata", "finally", "except"}
          /\ Range(trace) \subseteq {"copyRepository", "getCurrentBuild"}
          /\ pc = "except" =>
                 raisedAt \in {"init", "copyRepository", "getCurrentBuild",
                               "readMetadata"}
          /\ PubState(repo) = atStart.pub
          /\ path = NoPath
          /\ storeCalls = <<>>
          /\ nightlyConfig[repo] = atStart.pointer
    /\ (mode = "build" /\ unknownType /\ pc = "next") =>
          lastBuild[repo].kind \in {"failed", "nochange"}
    /\ pc \in {"writeconfig", "done"} => processed = InOrder(repos)
    /\ \A i \in Indexes(repos) :
          repos[i].type \notin BuildTypes =>
              nightlyConfig[i] = 0 /\ nightliesData[i] = 0

\* C20 witness: the pass is over, the repository of the unknown type came
\* first and failed at the metadata chain, and the gecko repository after
\* it was built
C20_Witness ==
    /\ pc = "done"
    /\ mode = "build"
    /\ repos[1].type = "opera"
    /\ errors = <<1>>
    /\ lastBuild[1].kind = "failed"
    /\ lastBuild[2].kind = "ok"
    /\ processed = <<1, 2>>

\* C21: when the process stops at any point of write_downloads_lockfile,
\* the lock file holds the whole text of the previous or of the new
\* document, and the read of a later process returns that document: it
\* never finds an empty or cut file and never raises.
C21_Lockfile_Never_Partial ==
    /\ pc = "stopped" =>
          /\ loadable(ledgerFile, lockBytes)
          /\ lockCalls /= <<>> =>
                 LET c == lockCalls[Len(lockCalls)]
                 IN \/ ledgerFile = atStart.ledger
                    \/ read_downloads_lockfile(ledgerFile) =
                           IF c.op = "add"
                           THEN appendEntry(c.before, c.platform, c.entry)
                           ELSE removeEntries(c.before, c.platform,
                                              c.filter_key, c.filter_value)
    /\ raisedAt /= "read_downloads_lockfile"

\* a is the beginning of b
IsPrefix(a, b) == Len(a) <= Len(b) /\ SubSeq(b, 1, Len(a)) = a

\* the requests of uploadToChromeWebStore
ChromeCalls == <<"cws_token", "cws_upload", "cws_publish">>

\* C22: uploadToChromeWebStore issues the token exchange, the upload and
\* the publish call in this order, each at most once and none before the
\* one in front of it was answered; with uploadState FAILURE, or a header
\* that is not the known CRX header, it raises and the publish call is not
\* issued; after the publish call it returns only if every status is OK
\* or ITEM_PENDING_REVIEW, and then it does return.
C22_Chrome_Call_Order ==
    (mode = "build" /\ type = "chrome") =>
        /\ IsPrefix(storeCalls, ChromeCalls)
        /\ \A k \in 2..Len(storeCalls) : storeCalls[k - 1] \in Range(trace)
        /\ "FAILURE" \in response =>
               raisedAt = "cws_upload" /\ pc \notin UploadPositions
        /\ raisedAt = "cws_upload" => "cws_publish" \notin Range(storeCalls)
        /\ "cws_publish" \in Range(storeCalls) =>
               /\ raisedAt \in {"none", "uploadToChromeWebStore"}
               /\ raisedAt = "none" =>
                      response /= {} /\ response \subseteq AcceptedStatuses
               /\ response \subseteq AcceptedStatuses => raisedAt = "none"

\* C22 witness: the upload was answered with uploadState FAILURE and
\* main() has the exception, no publish call issued
C22_Witness ==
    /\ mode = "build"
    /\ type = "chrome"
    /\ pc = "except"
    /\ response = {"FAILURE"}
    /\ storeCalls = <<"cws_token", "cws_upload">>

\* the requests of upload_to_windows_store, with and without a pending
\* submission
WindowsCalls(pending) ==
    <<"ws_token", "ws_getapp">>
        \o (IF pending THEN <<"ws_delete">> ELSE <<>>)
        \o <<"ws_create", "ws_update", "ws_uploadfile", "ws_commit">>

pendingReported == "pendingApplicationSubmission" \in response

\* C23: upload_to_windows_store issues its requests in the order fetch
\* application, delete the pending submission, create submission, update
\* submission, upload package, commit, the delete only and always when the
\* application reports a pending submission and answered before the
\* submission is created; no request is issued before the one in front of
\* it was answered, so none follows a failure and no commit is issued
\* without the package upload; the method returns only with the commit
\* status CommitStarted, and then it does return.
C23_Windows_Call_Order ==
    (mode = "build" /\ type = "edge") =>
        /\ \E pending \in BOOLEAN : IsPrefix(storeCalls, WindowsCalls(pending))
        /\ \A k \in 2..Len(storeCalls) : storeCalls[k - 1] \in Range(trace)
        /\ pc = "ws_delete" => pendingReported
        /\ (pendingReported /\ "ws_create" \in Range(storeCalls)) =>
               "ws_delete" \in Range(trace)
        /\ (pendingReported /\ pc = "ws_create") =>
               "ws_delete" \in Range(trace)
        /\ "ws_commit" \in Range(storeCalls) =>
               /\ "ws_uploadfile" \in Range(trace)
               /\ raisedAt \in {"none", "upload_to_windows_store"}
               /\ raisedAt = "none" => response = {"CommitStarted"}
               /\ response = {"CommitStarted"} => raisedAt = "none"
        /\ (runReturned /\ storeCalls /= <<>>) =>
               "ws_commit" \in Range(storeCalls)

\* C23 witness: the application reported a pending submission, and the
\* method returned after delete, create, update, upload and a commit
\* answered with CommitStarted
C23_Witness ==
    /\ runReturned
    /\ type = "edge"
    /\ storeCalls = WindowsCalls(TRUE)
    /\ response = {"CommitStarted"}

\* C24: the list retireBuilds() returns is in descending order under the
\* version comparator and names, each once, exactly the versions whose
\* package is in the directory after the call; of a version it dropped
\* neither the package nor the changelog is left; the changelogs of the
\* versions it kept are as they were.
C24_Retire_Returns_Sorted_Survivors ==
    (type = "ie" /\ pc = "iemanifest") =>
        LET before == listVersions(atStart.pub.files)
            after == listVersions(files[repo])
        IN /\ \A k \in 1..(Len(versions) - 1) :
                  compareVersions(versions[k], versions[k + 1]) >= 0
           /\ Range(versions) = after
           /\ Len(versions) = Cardinality(after)
           /\ \A v \in before \ after :
                  /\ PkgFile(v) \notin files[repo]
                  /\ ChangelogFile(v) \notin files[repo]
           /\ \A v \in after :
                  ChangelogFile(v) \in files[repo]
                      <=> ChangelogFile(v) \in atStart.pub.files
           /\ {f \in files[repo] : f.kind = "changelog"}
                  \subseteq atStart.pub.files

\* C24 witness: retireBuilds() dropped a version that had a changelog and
\* one that had none, and kept versions with and without a changelog
C24_Witness ==
    /\ type = "ie"
    /\ pc = "iemanifest"
    /\ Len(versions) = MAX_BUILDS
    /\ \E v, w \in listVersions(atStart.pub.files) \ Range(versions) :
           /\ ChangelogFile(v) \in atStart.pub.files
           /\ ChangelogFile(w) \notin atStart.pub.files
    /\ \E v, w \in Range(versions) :
           /\ ChangelogFile(v) \in files[repo]
           /\ ChangelogFile(w) \notin files[repo]

\* C25 as stated: the document written at the end of a build pass carries
\* the new revision for every repository whose run() reached the pointer
\* assignment and the previous revision for every repository that failed
\* or had no change.
C25_Failed_Platform_Keeps_Pointer ==
    (pc = "writeconfig" /\ mode = "build") =>
        \A i \in Indexes(repos) :
            /\ lastBuild[i].pointerSet => nightlyConfig[i] = lastBuild[i].rev
            /\ lastBuild[i].kind \in {"failed", "nochange"} =>
                   nightlyConfig[i] = nightliesData[i]

\* C25 amended: the persisted configuration changes only by the one write
\* at the end of the pass, after every repository was processed, and that
\* write happens whether or not repositories failed; the document written
\* carries the new revision for every repository whose run() reached the
\* pointer assignment, one whose store upload failed afterwards included,
\* and the previous revision for every repository that failed before the
\* assignment or had no change.
C25_Config_Written_At_End ==
    /\ [][nightliesData' /= nightliesData =>
              /\ pc = "writeconfig"
              /\ pc' = "done"
              /\ processed = InOrder(repos)]_vars
    /\ [](pc = "done" => nightliesData = nightlyConfig)
    /\ []((pc = "writeconfig" /\ mode = "build") =>
              \A i \in Indexes(repos) :
                  nightlyConfig[i] = IF lastBuild[i].pointerSet
                                     THEN lastBuild[i].rev
                                     ELSE nightliesData[i])

\* C25 witness: the pass is over and the configuration written: the first
\* repository with its new revision, the second, which failed, with the
\* revision it had
C25_Witness ==
    /\ pc = "done"
    /\ mode = "build"
    /\ Len(repos) = 2
    /\ lastBuild[1].kind = "ok"
    /\ nightliesData[1] = lastBuild[1].rev
    /\ nightliesData[1] /= 0
    /\ lastBuild[2].kind = "failed"
    /\ ~lastBuild[2].pointerSet
    /\ nightliesData[2] = 0
    /\ errors = <<2>>

\* C26: after a run() that completes for chrome, safari, edge or android,
\* whatever versions the directory held, the 00latest package alias and the
\* 00latest changelog alias name the version built in this pass, and the
\* package and the changelog they name are in the directory.
C26_Latest_Aliases_Valid ==
    (runReturned /\ type \in PublicTypes) =>
        /\ latestPkg[repo] = version
        /\ latestChangelog[repo] = version
        /\ PkgFile(latestPkg[repo]) \in files[repo]
        /\ ChangelogFile(latestChangelog[repo]) \in files[repo]

\* the bucket of the platform in a document, empty when it has none
bucketOf(current, platform) ==
    IF platform \in DOMAIN current THEN current[platform] ELSE <<>>

\* C27: after remove_from_downloads_lockfile(platform, key, value), for any
\* content of the bucket, no entry with that value under the key is left
\* in the bucket, and the entries with another value are all there in the
\* order they had.
C27_Remove_Deletes_All_Matches ==
    \A i \in 1..Len(lockCalls) :
        LET c == lockCalls[i]
            matches(e) == /\ c.filter_key \in DOMAIN e
                          /\ e[c.filter_key] = c.filter_value
            others(e) == ~matches(e)
        IN c.op = "remove" =>
               bucketOf(docAfter(i), c.platform)
                   = SelectSeq(bucketOf(c.before, c.platform), others)

\* C28: the lock file never holds a platform whose bucket is empty: the
\* call that removes the last entry of a bucket removes the platform key
\* with it, and an add creates the bucket with its entry.
C28_No_Empty_Bucket ==
    /\ \A k \in DOMAIN read_downloads_lockfile(ledgerFile) :
           read_downloads_lockfile(ledgerFile)[k] /= <<>>
    /\ \A i \in 1..Len(lockCalls) :
           /\ \A k \in DOMAIN docAfter(i) : docAfter(i)[k] /= <<>>
           /\ lockCalls[i].op = "add" =>
                  lockCalls[i].platform \in DOMAIN docAfter(i)

\* C28 witness: the last call removed the only entry of the bucket of its
\* platform, and the platform is gone from the file
C28_Witness ==
    /\ lockCalls /= <<>>
    /\ LET c == lockCalls[Len(lockCalls)]
       IN /\ c.op = "remove"
          /\ Len(bucketOf(c.before, c.platform)) = 1
          /\ ledgerFile.exists
          /\ c.platform \notin DOMAIN read_downloads_lockfile(ledgerFile)

\* the positions of a download pass at which a repository is taken up
DownloadPositions ==
    {"dispatch", "download", "dl_copy", "dl_meta", "dl_loop", "dl_query",
     "dl_fetch", "dl_remove", "dl_reject", "dl_exists", "dl_changelog",
     "dl_manifest", "dl_retire", "dl_index", "dl_link", "finally", "except",
     "next"}

\* download() acts on the repository: its type is downloadable and had a
\* bucket in the lock file when the repository was taken up
hasBucket ==
    type \in downloadable_repos
             \cap DOMAIN read_downloads_lockfile(atStart.ledger)

\* C29: a pass in download mode never enters run(): nothing is built, no
\* store upload is issued and no entry is added to the lock file; no
\* revision pointer changes, in memory or in the persisted configuration,
\* also when the resolved revision differs from the pointer; for a
\* repository that is not of a downloadable type with a bucket in the lock
\* file, no vendor request is issued and directory and lock file stay as
\* they were.
C29_Download_Pass_Frame ==
    /\ []((mode = "download" /\ pc /= "idle") =>
              /\ pc \notin RunPositions
              /\ Range(trace) \cap
                     ({"getCurrentBuild", "readMetadata", "build",
                       "latestRevision"} \cup UploadSteps) = {}
              /\ Range(storeCalls) \subseteq {"amo_status", "amo_download"}
              /\ tempFiles = {}
              /\ \A k \in 1..Len(lockCalls) : lockCalls[k].op = "remove"
              /\ nightlyConfig = nightliesData
              /\ (pc \in DownloadPositions /\ ~hasBucket) =>
                     /\ pc \in {"dispatch", "download", "except", "next"}
                     /\ PubState(repo) = atStart.pub
                     /\ ledgerFile = atStart.ledger
                     /\ storeCalls = <<>>
                     /\ raisedAt \in {"none", "init"})
    /\ [][(mode = "download" /\ pc \notin {"idle", "done"}) =>
              /\ nightliesData' = nightliesData
              /\ nightlyConfig' = nightlyConfig]_vars

\* C29 witness: a download pass published a package for the gecko
\* repository, whose resolved revision differs from the pointer, and the
\* pointer is as it was
C29_Witness ==
    /\ mode = "download"
    /\ pc = "next"
    /\ type = "gecko"
    /\ hasBucket
    /\ "link" \in Range(trace)
    /\ revision /= previousRevision
    /\ nightlyConfig[repo] = previousRevision
    /\ nightliesData[repo] = previousRevision

\* C30: the handler answers a checkid_immediate or checkid_setup request
\* positively exactly when REMOTE_ADDR equals SERVER_ADDR and negatively
\* for every other remote address; no other request gets an authorization
\* answer; for no parameters at all it returns the 400 error page and no
\* answer is made.
C30_OpenID_Local_Only ==
    openid.pc /= "idle" =>
        /\ openid.answer = "positive" =>
               /\ openid.requestMode \in CheckidModes
               /\ openid.REMOTE_ADDR = openid.SERVER_ADDR
        /\ openid.answer = "negative" =>
               /\ openid.requestMode \in CheckidModes
               /\ openid.REMOTE_ADDR /= openid.SERVER_ADDR
        /\ openid.sreg => openid.answer = "positive"
        /\ (openid.requestMode \in CheckidModes
                /\ openid.pc \in {"display", "raised", "done"}) =>
               /\ openid.answer /= "none"
               /\ openid.answer = "positive"
                      <=> openid.REMOTE_ADDR = openid.SERVER_ADDR
        /\ (openid.pc = "done" /\ openid.params = NoParams) =>
               /\ openid.status = "400 Error Processing Request"
               /\ openid.body = "<p>Empty request</p>"
               /\ openid.answer = "none"
               /\ openid.requestMode = ""

\* C30 witness: a checkid_setup request posted from another address than
\* the server's was answered negatively and the response sent
C30_Witness ==
    /\ openid.pc = "done"
    /\ openid.REQUEST_METHOD = "POST"
    /\ openid.requestMode = "checkid_setup"
    /\ openid.REMOTE_ADDR /= openid.SERVER_ADDR
    /\ openid.answer = "negative"
    /\ openid.status = "302 OK"

====
